---- MODULE Spec2Model ----
(***************************************************************************)
(* A model of baryrat.py: the BarycentricRational value type, the AAA      *)
(* loop, the interpolation constructors, the BRASIL loop and the Newton    *)
(* optimizers bpane / brane.                                               *)
(*                                                                         *)
(* Numbers.  A floating point number is modelled by an exact rational      *)
(* <<n, d>> in lowest terms with d > 0, or by one of the three IEEE        *)
(* specials <<1, 0>> (+inf), <<-1, 0>> (-inf), <<0, 0>> (NaN).  Rounding   *)
(* and the sign of zero are not modelled.                                  *)
(***************************************************************************)
EXTENDS Integers, Sequences, FiniteSets, TLC

VARIABLES
    z, f, w,                 \* the arguments handed to BarycentricRational(z, f, w)
    made,                    \* whether __init__ has stored the instance
    nodes, values, weights,  \* the stored triple of the instance
    op,                      \* the last method called on the instance, with its arguments
    ret,                     \* what that call returned
    exc,                     \* the exception it raised, or "none"
    icall,                   \* a call of an interpolation constructor, with its arguments
    iret,                    \* its outcome: the exception or the instance returned
    aaa_F,                   \* aaa: the sample values F
    aaa_tol,                 \* aaa: the argument tol
    aaa_mmax,                \* aaa: the argument mmax
    aaa_reltol,              \* aaa: reltol
    aaa_J,                   \* aaa: J, the sample indices that are not support points
    aaa_zj,                  \* aaa: the support points, by sample index
    aaa_res,                 \* aaa: abs(F - R), per sample
    aaa_errors,              \* aaa: errors
    aaa_wj,                  \* aaa: whether wj has been assigned
    aaa_iters,               \* aaa: loop bodies entered
    aaa_pc,                  \* aaa: "call", "loop", "exit", "returned" or "raised"
    aaa_exc,                 \* aaa: the exception raised, or "none"
    b_deg,                   \* brasil: the argument deg = (m, n)
    b_tol,                   \* brasil: the argument tol
    b_init_steps,            \* brasil: the argument init_steps
    b_maxiter,               \* brasil: the argument maxiter
    b_npi,                   \* brasil: the argument npi
    b_info,                  \* brasil: the argument info
    b_nodes0,                \* brasil: the caller's array nodes0, <<"None">> when not given
    b_nodes,                 \* brasil: nodes
    b_alias,                 \* brasil: nodes is the caller's array object
    b_k,                     \* brasil: the loop variable k
    b_errors,                \* brasil: errors, a list of (max_err, deviation, stepsize)
    b_used,                  \* brasil: the stepsize of each BRASILcorrection call so far
    b_pc,                    \* brasil: "call", "loop", "returned" or "raised"
    b_ret,                   \* brasil: the value returned
    b_exc,                   \* brasil: the exception raised, or "none"
    n_alg,                   \* bpane/brane: which of the two is called
    n_nn,                    \* bpane/brane: nn, the number of interpolation nodes
    n_initial_nodes,         \* brane: len(initial_nodes), -1 when not given
    n_maxiter,               \* bpane/brane: the argument maxiter
    n_tol,                   \* bpane/brane: the argument tol
    n_info,                  \* bpane/brane: the argument info
    n_it,                    \* bpane/brane: the loop variable (it, num_iter)
    n_x,                     \* bpane/brane: how often the node vector x was replaced
    n_local_max,             \* bpane/brane: local_max of the current pass
    n_signed_errs,           \* bpane/brane: the signed errors at the local maxima
    n_dxl,                   \* bpane/brane: the Newton step, by kind
    n_halvings,              \* bpane/brane: how often tau was halved in this pass
    n_pc,                    \* bpane/brane: "call", "loop", "halving", "returned", "raised"
    n_ret,                   \* bpane/brane: the value returned
    n_exc,                   \* bpane/brane: the exception raised, or "none"
    rcall,                   \* poles/zeros/polres: the instance, the packages, the call
    rret,                    \* poles/zeros/polres: the solver run and its precision
    mcall,                   \* local_maxima_*: the call with its arguments
    mret,                    \* local_maxima_*: its outcome
    damp,                    \* bpane/brane: the step-size loop, on actual node vectors
    scall,                   \* brasil: one node update, with its arguments
    sret                     \* brasil: the nodes after the update

varsBR == <<z, f, w, made, nodes, values, weights, op, ret, exc>>

varsInterp == <<icall, iret>>

varsAAA == <<aaa_F, aaa_tol, aaa_mmax, aaa_reltol, aaa_J, aaa_zj, aaa_res, aaa_errors,
            aaa_wj, aaa_iters, aaa_pc, aaa_exc>>

varsBrasil == <<b_deg, b_tol, b_init_steps, b_maxiter, b_npi, b_info, b_nodes0, b_nodes,
               b_alias, b_k, b_errors, b_used, b_pc, b_ret, b_exc>>

varsNewton == <<n_alg, n_nn, n_initial_nodes, n_maxiter, n_tol, n_info, n_it, n_x,
               n_local_max, n_signed_errs, n_dxl, n_halvings, n_pc, n_ret, n_exc>>

varsRoots == <<rcall, rret>>

varsMaxima == <<mcall, mret>>

varsDamping == <<damp>>

varsStep == <<scall, sret>>

vars == <<varsBR, varsInterp, varsAAA, varsBrasil, varsNewton, varsRoots, varsMaxima,
          varsDamping, varsStep>>

\* what the operations of one family leave alone: the other families
notBR == <<varsInterp, varsAAA, varsBrasil, varsNewton, varsRoots, varsMaxima,
    varsDamping, varsStep>>

notInterp == <<varsBR, varsAAA, varsBrasil, varsNewton, varsRoots, varsMaxima,
    varsDamping, varsStep>>

notAAA == <<varsBR, varsInterp, varsBrasil, varsNewton, varsRoots, varsMaxima,
    varsDamping, varsStep>>

notBrasil == <<varsBR, varsInterp, varsAAA, varsNewton, varsRoots, varsMaxima,
    varsDamping, varsStep>>

notNewton == <<varsBR, varsInterp, varsAAA, varsBrasil, varsRoots, varsMaxima,
    varsDamping, varsStep>>

notRoots == <<varsBR, varsInterp, varsAAA, varsBrasil, varsNewton, varsMaxima,
    varsDamping, varsStep>>

notMaxima == <<varsBR, varsInterp, varsAAA, varsBrasil, varsNewton, varsRoots,
    varsDamping, varsStep>>

notDamping == <<varsBR, varsInterp, varsAAA, varsBrasil, varsNewton, varsRoots, varsMaxima,
    varsStep>>

notStep == <<varsBR, varsInterp, varsAAA, varsBrasil, varsNewton, varsRoots, varsMaxima,
    varsDamping>>

(***************************************************************************)
(* Bounds of the model.                                                    *)
(***************************************************************************)
MaxLen == 2

MaxK == 3

MaxNodes == 3

MaxDeg == 2

MaxSamples == 3

MaxIter == 3

MaxHalvings == 2

(***************************************************************************)
(* Rational arithmetic with IEEE specials.                                 *)
(***************************************************************************)
Abs(i) == IF i < 0 THEN -i ELSE i

Sgn(i) == IF i > 0 THEN 1 ELSE IF i < 0 THEN -1 ELSE 0

RECURSIVE GCD(_, _)
GCD(a, b) == IF b = 0 THEN a ELSE GCD(b, a % b)

Norm(n, d) ==
    IF d = 0 THEN <<Sgn(n), 0>>
    ELSE LET g == GCD(Abs(n), Abs(d))
             s == Sgn(d)
         IN  <<(s * n) \div g, (s * d) \div g>>

R(i) == <<i, 1>>

Zero == R(0)

One == R(1)

NaN == <<0, 0>>

PosInf == <<1, 0>>

IsNaN(a) == a = NaN

IsInf(a) == a[2] = 0 /\ a[1] # 0

IsFinite(a) == a[2] # 0

RNeg(a) == <<-a[1], a[2]>>

RAdd(a, b) ==
    IF IsInf(a) /\ IsInf(b) THEN (IF a = b THEN a ELSE NaN)
    ELSE Norm(a[1] * b[2] + b[1] * a[2], a[2] * b[2])

RSub(a, b) == RAdd(a, RNeg(b))

RMul(a, b) == Norm(a[1] * b[1], a[2] * b[2])

RDiv(a, b) == RMul(a, Norm(b[2], b[1]))

RAbs(a) == <<Abs(a[1]), a[2]>>

\* numpy's ==, <, <= : every comparison with NaN is false
REq(a, b) == a = b /\ ~IsNaN(a)

RLt(a, b) ==
    IF IsNaN(a) \/ IsNaN(b) THEN FALSE
    ELSE IF IsInf(a) \/ IsInf(b)
         THEN (IF IsInf(a) THEN a[1] ELSE 0) < (IF IsInf(b) THEN b[1] ELSE 0)
         ELSE a[1] * b[2] < b[1] * a[2]

RLe(a, b) == RLt(a, b) \/ REq(a, b)

(***************************************************************************)
(* Arrays are sequences; the elementwise operations of numpy.              *)
(***************************************************************************)
\* numpy computes an array expression eagerly: the sequence is built once
AsArray(s) == s \o <<>>

VMul(u, v) == AsArray([j \in 1..Len(u) |-> RMul(u[j], v[j])])

VDiv(u, v) == AsArray([j \in 1..Len(u) |-> RDiv(u[j], v[j])])

VSubScalar(u, x) == AsArray([j \in 1..Len(u) |-> RSub(u[j], x)])

RECURSIVE VSum(_)
VSum(u) == IF Len(u) = 0 THEN Zero ELSE RAdd(VSum(SubSeq(u, 1, Len(u) - 1)), u[Len(u)])

Dot(u, v) == VSum(VMul(u, v))

SetMax(S) == CHOOSE m \in S : \A k \in S : k <= m

SetMin(S) == CHOOSE m \in S : \A k \in S : m <= k

RECURSIVE SeqsUpTo(_, _)
SeqsUpTo(S, n) ==
    IF n = 0 THEN {<<>>}
    ELSE LET P == SeqsUpTo(S, n - 1)
         IN  P \cup {Append(p, s) : p \in {q \in P : Len(q) = n - 1}, s \in S}

Distinct(u) == \A i, j \in 1..Len(u) : i # j => u[i] # u[j]

(***************************************************************************)
(* BarycentricRational.__call__                                            *)
(***************************************************************************)
\* one row of D = xv[:,None] - zj[None,:]
DRow(zj, x) == AsArray([j \in 1..Len(zj) |-> RSub(x, zj[j])])

\* the node indices j with D[i, j] == 0 for the evaluation point x
NodeHits(zj, x) == {j \in 1..Len(zj) : REq(DRow(zj, x)[j], Zero)}

\* one row of r = C.dot(wj * fj) / C.dot(wj), the zero divisors set to one
Quotient(zj, fj, wj, x) ==
    LET D0 == DRow(zj, x)
        D  == AsArray([j \in 1..Len(zj) |-> IF REq(D0[j], Zero) THEN One ELSE D0[j]])
        C  == AsArray([j \in 1..Len(zj) |-> RDiv(One, D[j])])
    IN  RDiv(Dot(C, VMul(wj, fj)), Dot(C, wj))

\* CallAt without the assignment r[node_xi] = fj[node_zi]
CallAtUnfixed(zj, fj, wj, x) == Quotient(zj, fj, wj, x)

\* r[node_xi] = fj[node_zi]: with a repeated index the last assignment stays
CallAt(zj, fj, wj, x) ==
    LET hits == NodeHits(zj, x)
    IN  IF hits = {} THEN Quotient(zj, fj, wj, x) ELSE fj[SetMax(hits)]

Call(zj, fj, wj, xv) == AsArray([i \in 1..Len(xv) |-> CallAt(zj, fj, wj, xv[i])])

\* an evaluation argument: a scalar, or an array (raveled)
Scalar(x) == [scalar |-> TRUE, v |-> <<x>>]

Array(xv) == [scalar |-> FALSE, v |-> xv]

\* __call__: an empty array returns an empty array, a scalar returns r[0]
call(zj, fj, wj, x) == [scalar |-> x.scalar, v |-> Call(zj, fj, wj, x.v)]

(***************************************************************************)
(* BarycentricRational.eval_deriv                                          *)
(***************************************************************************)
\* dx = self.nodes - x, with dx[i] = inf when x is the node i (i = 0: no node)
DxOf(zj, x, i) ==
    AsArray([j \in 1..Len(zj) |-> IF j = i THEN PosInf ELSE RSub(zj[j], x)])

\* first-order divided differences (self(self.nodes) - self(x)) / dx
DivDiff1(zj, fj, wj, x, i) ==
    VDiv(VSubScalar(Call(zj, fj, wj, zj), CallAt(zj, fj, wj, x)), DxOf(zj, x, i))

\* the value returned for the differences dd and the factor k!
DerivFrom(zj, wj, dd, x, i, fact) ==
    IF i # 0 THEN RMul(RDiv(RNeg(VSum(VMul(dd, wj))), wj[i]), R(fact))
    ELSE RMul(CallAt(zj, dd, wj, x), R(fact))

NodeIdx(zj, x) ==
    LET hits == {j \in 1..Len(zj) : REq(x, zj[j])}
    IN  IF hits = {} THEN 0 ELSE SetMin(hits)

Deriv1(zj, fj, wj, x) ==
    LET i == NodeIdx(zj, x)
    IN  DerivFrom(zj, wj, DivDiff1(zj, fj, wj, x, i), x, i, 1)

Deriv2(zj, fj, wj, x) ==
    LET i  == NodeIdx(zj, x)
        dd == VDiv(VSubScalar(DivDiff1(zj, fj, wj, x, i), Deriv1(zj, fj, wj, x)),
                   DxOf(zj, x, i))
    IN  DerivFrom(zj, wj, dd, x, i, 2)

\* EvalDerivScalar with every order above 1 treated as order 2
EvalDerivScalarNoLimit(zj, fj, wj, x, k) ==
    IF k = 1 THEN [exc |-> "none", v |-> <<Deriv1(zj, fj, wj, x)>>]
    ELSE [exc |-> "none", v |-> <<Deriv2(zj, fj, wj, x)>>]

\* eval_deriv at a scalar x with k # 0
EvalDerivScalar(zj, fj, wj, x, k) ==
    IF k = 1 THEN [exc |-> "none", v |-> <<Deriv1(zj, fj, wj, x)>>]
    ELSE IF k = 2 THEN [exc |-> "none", v |-> <<Deriv2(zj, fj, wj, x)>>]
    ELSE [exc |-> "NotImplementedError", v |-> <<>>]

\* np.vectorize(lambda X: self.eval_deriv(X, k=k), otypes=[x.dtype])(x): the
\* function is applied to each entry, so it is never applied for an empty x
EvalDerivVectorized(zj, fj, wj, xv, k) ==
    IF \E i \in 1..Len(xv) : EvalDerivScalar(zj, fj, wj, xv[i], k).exc # "none"
    THEN [exc |-> "NotImplementedError", v |-> <<>>]
    ELSE [exc |-> "none",
          v |-> AsArray([i \in 1..Len(xv) |-> EvalDerivScalar(zj, fj, wj, xv[i], k).v[1]])]

eval_deriv(zj, fj, wj, x, k) ==
    IF k = 0 THEN [exc |-> "none", v |-> call(zj, fj, wj, x).v]
    ELSE IF ~x.scalar THEN EvalDerivVectorized(zj, fj, wj, x.v, k)
    ELSE EvalDerivScalar(zj, fj, wj, x.v[1], k)

(***************************************************************************)
(* BarycentricRational.reciprocal                                          *)
(***************************************************************************)
\* which array object each array of a returned instance is: "new", or the
\* name of the array of self it is (or is a view of)
Fresh == [nodes |-> "new", values |-> "new", weights |-> "new"]

\* reciprocal passing self.nodes on without the copy
reciprocalNoCopy(zj, fj, wj) ==
    [exc     |-> "none",
     nodes   |-> zj,
     values  |-> AsArray([j \in 1..Len(fj) |-> RDiv(One, fj[j])]),
     weights |-> VMul(wj, fj),
     refs    |-> [Fresh EXCEPT !.nodes = "self.nodes"]]

\* reciprocal passing self.values on in place of 1 / self.values
reciprocalKeepValues(zj, fj, wj) ==
    [exc     |-> "none",
     nodes   |-> zj,
     values  |-> fj,
     weights |-> VMul(wj, fj),
     refs    |-> Fresh]

\* self.nodes.copy(), 1 / self.values, self.weights * self.values: three new arrays
reciprocal(zj, fj, wj) ==
    [exc     |-> "none",
     nodes   |-> zj,
     values  |-> AsArray([j \in 1..Len(fj) |-> RDiv(One, fj[j])]),
     weights |-> VMul(wj, fj),
     refs    |-> Fresh]

(***************************************************************************)
(* BarycentricRational.__init__                                            *)
(***************************************************************************)
\* InitRaises comparing only the first two lengths
InitRaisesTwo(zz, ff, ww) == Len(zz) # Len(ff)

InitRaises(zz, ff, ww) == ~(Len(zz) = Len(ff) /\ Len(ff) = Len(ww))

(***************************************************************************)
(* The instance and the calls made on it.                                  *)
(***************************************************************************)
NodeSet == {R(0), R(1), R(2)}

ValueSet == {R(0), R(2), R(-1)}

WeightSet == {R(0), R(1), R(-1)}

\* the node vectors handed to the constructor are strictly increasing
Increasing(u) == \A i \in 1..(Len(u) - 1) : RLt(u[i], u[i + 1])

\* evaluation points: 0 and 1 may be nodes, 3 never is
XSet == {R(0), R(1), R(3)}

XArgs ==
    {Scalar(x) : x \in XSet}
    \cup {Array(xv) : xv \in {<<>>, <<R(0), R(3)>>, <<R(3), R(1)>>}}

NoCall == [name |-> "none"]

\* some instances on the three nodes 0, 1, 2
ThreeNodeArgs ==
    {<<<<R(0), R(1), R(2)>>, fv, wv>> :
        fv \in {<<R(2), R(2), R(2)>>, <<R(0), R(2), R(-1)>>},
        wv \in {<<One, R(-1), Zero>>, <<One, One, One>>}}

InitBR ==
    /\ \/ /\ z \in {u \in SeqsUpTo(NodeSet, MaxLen) : Increasing(u)}
          /\ f \in SeqsUpTo(ValueSet, MaxLen)
          /\ w \in SeqsUpTo(WeightSet, MaxLen)
       \/ \E a \in ThreeNodeArgs : z = a[1] /\ f = a[2] /\ w = a[3]
    /\ made = FALSE
    /\ nodes = <<>>
    /\ values = <<>>
    /\ weights = <<>>
    /\ op = NoCall
    /\ ret = <<>>
    /\ exc = "none"

\* BarycentricRational(z, f, w)
Construct ==
    /\ ~made
    /\ op = NoCall
    /\ op' = [name |-> "__init__"]
    /\ IF InitRaises(z, f, w)
       THEN /\ exc' = "ValueError"
            /\ UNCHANGED <<made, nodes, values, weights>>
       ELSE /\ exc' = "none"
            /\ made' = TRUE
            /\ nodes' = z
            /\ values' = f
            /\ weights' = w
    /\ UNCHANGED <<z, f, w, ret>>
    /\ UNCHANGED notBR

\* r(x)
Evaluate ==
    /\ made
    /\ op = NoCall
    /\ \E x \in XArgs :
          /\ op' = [name |-> "__call__", x |-> x]
          /\ ret' = call(nodes, values, weights, x).v
    /\ exc' = "none"
    /\ UNCHANGED <<z, f, w, made, nodes, values, weights>>
    /\ UNCHANGED notBR

\* r.eval_deriv(x, k)
EvaluateDerivative ==
    /\ made
    /\ op = NoCall
    /\ \E x \in XArgs, k \in 0..MaxK :
          LET r == eval_deriv(nodes, values, weights, x, k)
          IN  /\ op' = [name |-> "eval_deriv", x |-> x, k |-> k]
              /\ ret' = r.v
              /\ exc' = r.exc
    /\ UNCHANGED <<z, f, w, made, nodes, values, weights>>
    /\ UNCHANGED notBR

\* r.reciprocal()
Reciprocal ==
    /\ made
    /\ op = NoCall
    /\ LET r == reciprocal(nodes, values, weights)
       IN  /\ op' = [name |-> "reciprocal"]
           /\ ret' = <<[nodes |-> r.nodes, values |-> r.values, weights |-> r.weights,
                         refs |-> r.refs]>>
           /\ exc' = r.exc
    /\ UNCHANGED <<z, f, w, made, nodes, values, weights>>
    /\ UNCHANGED notBR

\* r.reciprocal().reciprocal(): reciprocal called on the instance just returned
ReciprocalOfResult ==
    /\ made
    /\ op = [name |-> "reciprocal"]
    /\ LET r == reciprocal(ret[1].nodes, ret[1].values, ret[1].weights)
       IN  /\ op' = [name |-> "reciprocal.reciprocal"]
           /\ ret' = <<[nodes |-> r.nodes, values |-> r.values, weights |-> r.weights,
                         refs |-> r.refs]>>
           /\ exc' = r.exc
    /\ UNCHANGED <<z, f, w, made, nodes, values, weights>>
    /\ UNCHANGED notBR

\* the call on the instance is over: the caller may make the next one
Return ==
    /\ made
    /\ op # NoCall
    /\ op' = NoCall
    /\ ret' = <<>>
    /\ exc' = "none"
    /\ UNCHANGED <<z, f, w, made, nodes, values, weights>>
    /\ UNCHANGED notBR

(***************************************************************************)
(* _nullspace_vector.  A matrix is [rows, cols, a]: a is the sequence of   *)
(* its rows.  Every matrix handed to _nullspace_vector has cols - 1 rows.  *)
(* The vector returned by the QR factorisation has Euclidean norm 1 and a  *)
(* sign the factorisation chooses; here it is scaled to maximum norm 1,    *)
(* and both signs are outcomes.                                            *)
(***************************************************************************)
Matrix(r, c, a) == [rows |-> r, cols |-> c, a |-> a]

DropAt(u, j) == AsArray([k \in 1..(Len(u) - 1) |-> IF k < j THEN u[k] ELSE u[k + 1]])

RECURSIVE Det(_)
Det(a) ==
    IF Len(a) = 0 THEN One
    ELSE LET minor(j) == AsArray([i \in 1..(Len(a) - 1) |-> DropAt(a[i + 1], j)])
             term(j)  == RMul(RMul(R(IF j % 2 = 1 THEN 1 ELSE -1), a[1][j]), Det(minor(j)))
         IN  VSum(AsArray([j \in 1..Len(a) |-> term(j)]))

\* the generalised cross product of the rows: orthogonal to every row
Cofactors(A) ==
    AsArray([j \in 1..A.cols |->
        RMul(R(IF j % 2 = 1 THEN 1 ELSE -1),
             Det(AsArray([i \in 1..A.rows |-> DropAt(A.a[i], j)])))])

MaxAbs(u) == CHOOSE m \in {RAbs(u[j]) : j \in 1..Len(u)} :
                 \A j \in 1..Len(u) : RLe(RAbs(u[j]), m)

Scaled(u, c) == AsArray([j \in 1..Len(u) |-> RDiv(u[j], c)])

UnitVector(c, k) == AsArray([j \in 1..c |-> IF j = k THEN One ELSE Zero])

IsNullVector(A, v) == \A i \in 1..A.rows : Dot(A.a[i], v) = Zero

\* the unit vectors of the null space of a matrix without full rank that
\* have entries in {-1, 0, 1}
SmallNullVectors(A) ==
    {v \in [1..A.cols -> {R(-1), Zero, One}] :
        (\E j \in 1..A.cols : v[j] # Zero) /\ IsNullVector(A, v)}

\* the outcomes of Q[:, -1].conj() for the QR factorisation of A.T
QRNullVectors(A) ==
    LET c == Cofactors(A)
    IN  IF \A j \in 1..A.cols : IsFinite(c[j]) /\ c[j] = Zero
        THEN {AsArray(v) : v \in SmallNullVectors(A)}
        ELSE {Scaled(c, MaxAbs(c)), Scaled(c, RNeg(MaxAbs(c)))}

\* _mp_qr(A.T), last column of Q: the set of its outcomes.  The assertion
\* fails when the extended-precision package is not installed.  What the
\* package returns for a matrix without rows is not fixed by this code.
mp_qr(A) ==
    {[exc |-> "AssertionError", v |-> <<>>]}
    \cup IF A.rows = 0
         THEN {[exc |-> "none", v |-> UnitVector(A.cols, k)] : k \in 1..A.cols}
              \cup {[exc |-> "ProviderError", v |-> <<>>]}
         ELSE {[exc |-> "none", v |-> v] : v \in QRNullVectors(A)}

\* _nullspace_vector(A, use_mp): the set of its outcomes
nullspace_vector(A, use_mp) ==
    IF use_mp
    THEN mp_qr(A)
    ELSE IF A.rows = 0
         THEN {[exc |-> "none", v |-> UnitVector(A.cols, 1)]}
         ELSE IF \E i \in 1..A.rows : \E j \in 1..A.cols : ~IsFinite(A.a[i][j])
         THEN \* scipy.linalg.qr checks its argument for infs and NaNs
              {[exc |-> "ValueError", v |-> <<>>]}
         ELSE {[exc |-> "none", v |-> v] : v \in QRNullVectors(A)}

(***************************************************************************)
(* The interpolation constructors.  Each yields the set of its outcomes:   *)
(* [exc, computed, nodes, values, weights], computed telling whether the   *)
(* weight computation was entered.                                         *)
(***************************************************************************)
Raised(e, computed) ==
    [exc |-> e, computed |-> computed, nodes |-> <<>>, values |-> <<>>, weights |-> <<>>]

\* BarycentricRational(zz, ff, ww) as the last statement of a constructor
Returned(zz, ff, ww) ==
    IF InitRaises(zz, ff, ww) THEN Raised("ValueError", TRUE)
    ELSE [exc |-> "none", computed |-> TRUE, nodes |-> zz, values |-> ff, weights |-> ww]

\* the entries of u at the (1-based) indices idx, in that order
Pick(u, idx) == AsArray([k \in 1..Len(idx) |-> u[idx[k]]])

\* the indices lo, lo + 2, ... up to n (nodes[0::2] is Stride(1, n))
Stride(lo, n) == AsArray([k \in 1..((n - lo + 2) \div 2) |-> lo + 2 * (k - 1)])

\* (vs[:, None] - vp[None, :]) / (xs[:, None] - xp[None, :])
Loewner(xs, vs, xp, vp) ==
    AsArray([i \in 1..Len(xs) |->
        AsArray([j \in 1..Len(xp) |-> RDiv(RSub(vs[i], vp[j]), RSub(xs[i], xp[j]))])])

\* 1 / prod(x[i] - x[j] for j != i)
RECURSIVE ProdDiff(_, _, _)
ProdDiff(x, i, j) ==
    IF j = 0 THEN One
    ELSE RMul(ProdDiff(x, i, j - 1), IF j = i THEN One ELSE RSub(x[i], x[j]))

\* _polynomial_weights: np.abs(w).max() of an empty array raises ValueError
polynomial_weights(x) ==
    LET wr == AsArray([i \in 1..Len(x) |-> RDiv(One, ProdDiff(x, i, Len(x)))])
    IN  IF Len(x) = 0 THEN [exc |-> "ValueError", v |-> <<>>]
        ELSE [exc |-> "none", v |-> Scaled(wr, MaxAbs(wr))]

interpolate_poly(nodesA, valuesA) ==
    IF Len(nodesA) # Len(valuesA) THEN {Raised("ValueError", FALSE)}
    ELSE LET pw == polynomial_weights(nodesA)
         IN  IF pw.exc # "none" THEN {Raised(pw.exc, TRUE)}
             ELSE {Returned(nodesA, valuesA, pw.v)}

interpolate_rat(nodesA, valuesA, use_mp) ==
    LET n == (Len(valuesA) \div 2) + 1
        m == n - 1
        xa == Pick(nodesA, Stride(1, Len(nodesA)))
        xb == Pick(nodesA, Stride(2, Len(nodesA)))
        va == Pick(valuesA, Stride(1, Len(valuesA)))
        vb == Pick(valuesA, Stride(2, Len(valuesA)))
        B  == Matrix(Len(xb), Len(xa), Loewner(xb, vb, xa, va))
    IN  IF Len(valuesA) # n + m \/ Len(nodesA) # n + m THEN {Raised("ValueError", FALSE)}
        ELSE {IF nv.exc # "none" THEN Raised(nv.exc, TRUE) ELSE Returned(xa, va, nv.v) :
                 nv \in nullspace_vector(B, use_mp)}

\* np.rint(p / q) for p >= 0, q > 0: to the nearest integer, a tie to the even one
Rint(p, q) ==
    LET fl == p \div q
        r2 == 2 * (p % q)
    IN  IF r2 < q THEN fl
        ELSE IF r2 > q THEN fl + 1
        ELSE IF fl % 2 = 0 THEN fl ELSE fl + 1

\* pseudo_equi_nodes with the end point n - 1 left out of the grid
pseudo_equi_nodesOpen(n, k) ==
    IF k > n THEN [exc |-> "ValueError", v |-> <<>>]
    ELSE [exc |-> "none", v |-> AsArray([i \in 1..k |-> Rint((i - 1) * (n - 1), k)])]

\* np.linspace(0.0, n - 1, k), rounded: 0-based indices
pseudo_equi_nodes(n, k) ==
    IF k > n THEN [exc |-> "ValueError", v |-> <<>>]
    ELSE [exc |-> "none",
          v |-> AsArray([i \in 1..k |-> IF k = 1 THEN 0 ELSE Rint((i - 1) * (n - 1), k - 1)])]

\* np.setdiff1d(np.arange(nn), primary, assume_unique=True): sorted, 0-based
RECURSIVE SortedSeq(_)
SortedSeq(S) == IF S = {} THEN <<>> ELSE <<SetMin(S)>> \o SortedSeq(S \ {SetMin(S)})

SetDiff(nn, primary) == SortedSeq((0..(nn - 1)) \ {primary[k] : k \in 1..Len(primary)})

RECURSIVE RPow(_, _)
RPow(a, k) == IF k = 0 THEN One ELSE RMul(RPow(a, k - 1), a)

\* _defect_matrix_arnoldi(x, m, f): m rows spanning f, f*x, ..., f*x^(m-1).
\* The orthonormalisation changes the rows but not the space they span, which
\* is all the null space depends on; the rows are kept as they are.
defect_matrix_arnoldi(x, m, fv) ==
    AsArray([k \in 1..m |-> AsArray([j \in 1..Len(x) |-> RMul(fv[j], RPow(x[j], k - 1))])])

Plus1(idx) == AsArray([k \in 1..Len(idx) |-> idx[k] + 1])

interpolate_with_degree(nodesA, valuesA, m, n, use_mp) ==
    LET nn == m + n + 1
        N  == IF m > n THEN m ELSE n
        pe == pseudo_equi_nodes(nn, N + 1)
        primary   == Plus1(pe.v)
        secondary == Plus1(SetDiff(nn, pe.v))
        xp == Pick(nodesA, primary)
        vp == Pick(valuesA, primary)
        xs == Pick(nodesA, secondary)
        vs == Pick(valuesA, secondary)
        B  == Matrix(N, N + 1,
                     Loewner(xs, vs, xp, vp)
                     \o defect_matrix_arnoldi(xp, N - n, AsArray([j \in 1..(N + 1) |-> One]))
                     \o defect_matrix_arnoldi(xp, N - m, vp))
    IN  IF Len(nodesA) # nn \/ Len(valuesA) # nn THEN {Raised("ValueError", FALSE)}
        ELSE IF n = 0 THEN interpolate_poly(nodesA, valuesA)
        ELSE IF m = n THEN interpolate_rat(nodesA, valuesA, use_mp)
        ELSE IF pe.exc # "none" THEN {Raised(pe.exc, FALSE)}
        ELSE {IF nv.exc # "none" THEN Raised(nv.exc, TRUE) ELSE Returned(xp, vp, nv.v) :
                 nv \in nullspace_vector(B, use_mp)}

\* 1.0 / (poles[:, None] - nodes[None, :])
Cauchy(polesA, nodesA) ==
    AsArray([i \in 1..Len(polesA) |->
        AsArray([j \in 1..Len(nodesA) |-> RDiv(One, RSub(polesA[i], nodesA[j]))])])

interpolate_with_poles(nodesA, valuesA, polesA, use_mp) ==
    LET n == Len(nodesA)
        C == Matrix(Len(polesA), n, Cauchy(polesA, nodesA))
    IN  IF n # Len(valuesA) \/ n # Len(polesA) + 1 THEN {Raised("ValueError", FALSE)}
        ELSE {IF nv.exc # "none" THEN Raised(nv.exc, TRUE) ELSE Returned(nodesA, valuesA, nv.v) :
                 nv \in nullspace_vector(C, use_mp)}

\* np.prod([1.0 / abs(x[i] - x[j]) for j in range(k, k+d+1) if j != i]), 0-based
RECURSIVE FHProd(_, _, _, _)
FHProd(x, i, k, cnt) ==
    IF cnt = 0 THEN One
    ELSE LET j == k + cnt - 1
         IN  RMul(FHProd(x, i, k, cnt - 1),
                  IF j = i THEN One ELSE RDiv(One, RAbs(RSub(x[i + 1], x[j + 1]))))

RECURSIVE FHSum(_, _, _, _, _)
FHSum(x, i, d, lo, hi) ==
    IF hi < lo THEN Zero ELSE RAdd(FHSum(x, i, d, lo, hi - 1), FHProd(x, i, hi, d + 1))

\* FHWeight without the factor (-1.0)**(i-d)
FHWeightUnsigned(x, i, d, n) ==
    FHSum(x, i, d, IF i - d > 0 THEN i - d ELSE 0, IF i < n - d THEN i ELSE n - d)

\* weights[i] = (-1.0)**(i-d) * weight, i 0-based
FHWeight(x, i, d, n) ==
    RMul(R(IF (i - d) % 2 = 0 THEN 1 ELSE -1),
         FHSum(x, i, d, IF i - d > 0 THEN i - d ELSE 0, IF i < n - d THEN i ELSE n - d))

\* floater_hormann without the test of the blending parameter
FloaterHormannAnyBlending(nodesA, valuesA, blending) ==
    LET n == Len(valuesA) - 1
    IN  IF n # Len(nodesA) - 1 THEN {Raised("ValueError", FALSE)}
        ELSE {Returned(nodesA, valuesA,
                       AsArray([i \in 1..(n + 1) |-> FHWeight(nodesA, i - 1, blending, n)]))}

floater_hormann(nodesA, valuesA, blending) ==
    LET n == Len(valuesA) - 1
    IN  IF n # Len(nodesA) - 1 THEN {Raised("ValueError", FALSE)}
        ELSE IF ~(0 <= blending /\ blending <= n) THEN {Raised("ValueError", FALSE)}
        ELSE {Returned(nodesA, valuesA,
                       AsArray([i \in 1..(n + 1) |-> FHWeight(nodesA, i - 1, blending, n)]))}

(***************************************************************************)
(* One call of an interpolation constructor.                               *)
(***************************************************************************)
INodeSet == {R(0), R(1), R(2), R(3)}

IValueSet == {R(1), R(2)}

\* poles off the nodes
IPoleSet == {R(-2), R(5), R(7)}

INodeArgs == {u \in SeqsUpTo(INodeSet, MaxNodes) : Increasing(u)}

IValueArgs == SeqsUpTo(IValueSet, MaxNodes)

\* node arrays that are pairwise distinct and not increasing
IUnsortedArgs == {u \in SeqsUpTo(INodeSet, MaxNodes) : Distinct(u) /\ ~Increasing(u)}

IPoleArgs == {u \in SeqsUpTo(IPoleSet, MaxNodes) : Increasing(u)}

\* four nodes with values, for the degrees (1, 2) and (2, 1)
IFourNodes == {<<R(0), R(1), R(2), R(3)>>}

IFourValues == {<<R(1), R(2), R(1), R(2)>>, <<R(1), R(2), R(2), R(1)>>,
                <<R(1), R(1), R(1), R(1)>>}

ICalls ==
    {[fn |-> "interpolate_poly", nodes |-> x, values |-> v] :
        x \in INodeArgs, v \in IValueArgs}
    \cup {[fn |-> "interpolate_rat", nodes |-> x, values |-> v, use_mp |-> mp] :
        x \in INodeArgs, v \in IValueArgs, mp \in BOOLEAN}
    \cup {[fn |-> "interpolate_with_degree", nodes |-> x, values |-> v, m |-> dm, n |-> dn,
           use_mp |-> mp] :
        x \in INodeArgs, v \in IValueArgs, dm \in 0..MaxDeg, dn \in 0..MaxDeg, mp \in BOOLEAN}
    \cup {[fn |-> "interpolate_with_degree", nodes |-> x, values |-> v, m |-> dm, n |-> 3 - dm,
           use_mp |-> mp] :
        x \in IFourNodes, v \in IFourValues, dm \in 1..2, mp \in BOOLEAN}
    \cup {[fn |-> "interpolate_with_poles", nodes |-> x, values |-> v, poles |-> pl,
           use_mp |-> mp] :
        x \in INodeArgs, v \in IValueArgs, pl \in IPoleArgs, mp \in BOOLEAN}
    \cup {[fn |-> "floater_hormann", nodes |-> x, values |-> v, blending |-> d] :
        x \in INodeArgs \cup IUnsortedArgs, v \in IValueArgs, d \in (-1)..MaxNodes}

Pending == [exc |-> "pending"]

InitInterp ==
    /\ icall \in ICalls
    /\ iret = Pending

InterpolatePoly ==
    /\ iret = Pending
    /\ icall.fn = "interpolate_poly"
    /\ iret' \in interpolate_poly(icall.nodes, icall.values)
    /\ UNCHANGED icall
    /\ UNCHANGED notInterp

InterpolateRat ==
    /\ iret = Pending
    /\ icall.fn = "interpolate_rat"
    /\ iret' \in interpolate_rat(icall.nodes, icall.values, icall.use_mp)
    /\ UNCHANGED icall
    /\ UNCHANGED notInterp

InterpolateWithDegree ==
    /\ iret = Pending
    /\ icall.fn = "interpolate_with_degree"
    /\ iret' \in interpolate_with_degree(icall.nodes, icall.values, icall.m, icall.n,
                                        icall.use_mp)
    /\ UNCHANGED icall
    /\ UNCHANGED notInterp

InterpolateWithPoles ==
    /\ iret = Pending
    /\ icall.fn = "interpolate_with_poles"
    /\ iret' \in interpolate_with_poles(icall.nodes, icall.values, icall.poles, icall.use_mp)
    /\ UNCHANGED icall
    /\ UNCHANGED notInterp

FloaterHormann ==
    /\ iret = Pending
    /\ icall.fn = "floater_hormann"
    /\ iret' \in floater_hormann(icall.nodes, icall.values, icall.blending)
    /\ UNCHANGED icall
    /\ UNCHANGED notInterp

NextInterp ==
    \/ InterpolatePoly
    \/ InterpolateRat
    \/ InterpolateWithDegree
    \/ InterpolateWithPoles
    \/ FloaterHormann

(***************************************************************************)
(* BarycentricRational: jacobians, gain, the degrees, numerator,           *)
(* denominator and reduce_order.  A method that returns an instance yields *)
(* [exc, nodes, values, weights, refs].                                    *)
(***************************************************************************)
Failed(e) == [exc |-> e, nodes |-> <<>>, values |-> <<>>, weights |-> <<>>, refs |-> Fresh]

Instance(zz, ff, ww, refs) ==
    IF InitRaises(zz, ff, ww) THEN Failed("ValueError")
    ELSE [exc |-> "none", nodes |-> zz, values |-> ff, weights |-> ww, refs |-> refs]

\* _q(z, f, w, x) = np.sum((f * w) / (x - z)) for one evaluation point x
Q(zj, fj, wj, x) ==
    VSum(AsArray([k \in 1..Len(zj) |-> RDiv(RMul(fj[k], wj[k]), RSub(x, zj[k]))]))

\* jacobians: one row per entry of x, one column per node; np.column_stack
\* of an empty list raises ValueError
jacobians(zj, fj, wj, x) ==
    LET N1        == Len(zj)
        ones      == AsArray([k \in 1..N1 |-> One])
        qz1(i)    == Q(zj, ones, wj, x.v[i])
        f_diff(j) == AsArray([k \in 1..N1 |-> RSub(fj[j], fj[k])])
        xmz(i, j) == RSub(x.v[i], zj[j])
        sq(a)     == RMul(a, a)
        cols(e(_, _)) == AsArray([i \in 1..Len(x.v) |-> AsArray([j \in 1..N1 |-> e(i, j)])])
        dr_z(i, j) == RDiv(Q(zj, AsArray([k \in 1..N1 |-> RMul(f_diff(j)[k], wj[j])]), wj, x.v[i]),
                           sq(RMul(xmz(i, j), qz1(i))))
        dr_f(i, j) == RDiv(wj[j], RMul(xmz(i, j), qz1(i)))
        dr_w(i, j) == RDiv(Q(zj, f_diff(j), wj, x.v[i]), RMul(xmz(i, j), sq(qz1(i))))
    IN  IF N1 = 0 THEN [exc |-> "ValueError", v |-> <<>>]
        ELSE [exc |-> "none", v |-> <<cols(dr_z), cols(dr_f), cols(dr_w)>>]

\* np.sum(self.values * self.weights) / np.sum(self.weights)
gain(fj, wj) == RDiv(VSum(VMul(fj, wj)), VSum(wj))

\* DegreeFrom counting the defect from N - 1
DegreeFromShort(zj, cj, tol) ==
    LET N == Len(zj) - 1
        s(defect) == VSum(AsArray([j \in 1..Len(zj) |-> RMul(cj[j], RPow(zj[j], defect))]))
        found == {defect \in 0..(N - 1) : RLt(tol, RAbs(s(defect)))}
    IN  IF found = {} THEN 0 ELSE N - 1 - SetMin(found)

\* the loop of degree_numer and degree_denom over the coefficients cj
DegreeFrom(zj, cj, tol) ==
    LET N == Len(zj) - 1
        s(defect) == VSum(AsArray([j \in 1..Len(zj) |-> RMul(cj[j], RPow(zj[j], defect))]))
        found == {defect \in 0..(N - 1) : RLt(tol, RAbs(s(defect)))}
    IN  IF found = {} THEN 0 ELSE N - SetMin(found)

degree_numer(zj, fj, wj, tol) == DegreeFrom(zj, VMul(fj, wj), tol)

degree_denom(zj, wj, tol) == DegreeFrom(zj, wj, tol)

degree(zj, fj, wj, tol) == <<degree_numer(zj, fj, wj, tol), degree_denom(zj, wj, tol)>>

numerator(zj, fj, wj) ==
    LET pw == polynomial_weights(zj)
    IN  IF pw.exc # "none" THEN Failed(pw.exc)
        ELSE Instance(zj, VDiv(VMul(fj, wj), pw.v), pw.v, Fresh)

denominator(zj, wj) ==
    LET pw == polynomial_weights(zj)
    IN  IF pw.exc # "none" THEN Failed(pw.exc)
        ELSE Instance(zj, VDiv(wj, pw.v), pw.v, Fresh)

\* (nodes[1:] + nodes[:-1]) / 2
Midpoints(zj) == AsArray([i \in 1..(Len(zj) - 1) |-> RDiv(RAdd(zj[i + 1], zj[i]), R(2))])

\* the rank of a matrix with finite entries: the size of its largest minor
\* that does not vanish
Rank(A) ==
    SetMax({0} \cup
        {k \in 1..A.rows :
            \E rs \in SUBSET (1..A.rows), cs \in SUBSET (1..A.cols) :
                /\ Cardinality(rs) = k
                /\ Cardinality(cs) = k
                /\ Det(AsArray([i \in 1..k |-> Pick(A.a[SortedSeq(rs)[i]], SortedSeq(cs))]))
                      # Zero})

\* np.linalg.matrix_rank(L), the set of its outcomes.  For a matrix without
\* rows the maximum of no singular values raises, or the LAPACK build has
\* trouble with the size; with an entry that is not finite the decomposition
\* fails, or no singular value exceeds the NaN tolerance.
matrix_rank(A) ==
    IF A.rows = 0 \/ A.cols = 0
    THEN {[exc |-> "ValueError", order |-> 0], [exc |-> "none", order |-> 0]}
    ELSE IF \E i \in 1..A.rows : \E j \in 1..A.cols : ~IsFinite(A.a[i][j])
    THEN {[exc |-> "LinAlgError", order |-> 0], [exc |-> "none", order |-> 0]}
    ELSE {[exc |-> "none", order |-> Rank(A)]}

\* reduce_order, lines 364-377: n of the nodes are kept; self.nodes[subset]
\* with an index array is a new array
ReducedTo(zj, fj, wj, n) ==
    LET scale  == IF n = 1 THEN 1 ELSE (Len(zj) - 1) \div (n - 1)
        subset == AsArray([k \in 1..n |-> scale * (k - 1) + 1])
        nd     == Pick(zj, subset)
        vl     == Pick(fj, subset)
        aux    == Midpoints(nd)
        L      == Matrix(n - 1, n, Loewner(aux, Call(zj, fj, wj, aux), nd, vl))
    IN  IF \E k \in 1..n : subset[k] > Len(zj) THEN {Failed("IndexError")}
        ELSE {IF nv.exc # "none" THEN Failed(nv.exc) ELSE Instance(nd, vl, nv.v, Fresh) :
                 nv \in nullspace_vector(L, FALSE)}

\* reduce_order: the set of its outcomes
reduce_order(zj, fj, wj) ==
    LET aux == Midpoints(zj)
        L   == Matrix(Len(aux), Len(zj), Loewner(aux, Call(zj, fj, wj, aux), zj, fj))
    IN  UNION {IF mr.exc # "none" THEN {Failed(mr.exc)}
               ELSE IF mr.order = Len(zj) - 1 THEN {Instance(zj, fj, wj, Fresh)}
               ELSE ReducedTo(zj, fj, wj, mr.order + 1) :
                  mr \in matrix_rank(L)}

DegreeTols == {R(0), R(1)}

\* what a caller writes into an array of a returned instance
Mark == R(9)

\* r.jacobians(x)
Jacobians ==
    /\ made
    /\ op = NoCall
    /\ \E x \in XArgs :
          LET r == jacobians(nodes, values, weights, x)
          IN  /\ op' = [name |-> "jacobians", x |-> x]
              /\ ret' = r.v
              /\ exc' = r.exc
    /\ UNCHANGED <<z, f, w, made, nodes, values, weights>>
    /\ UNCHANGED notBR

\* r.gain()
Gain ==
    /\ made
    /\ op = NoCall
    /\ op' = [name |-> "gain"]
    /\ ret' = <<gain(values, weights)>>
    /\ exc' = "none"
    /\ UNCHANGED <<z, f, w, made, nodes, values, weights>>
    /\ UNCHANGED notBR

\* r.degree_numer(tol), r.degree_denom(tol), r.degree(tol)
Degree ==
    /\ made
    /\ op = NoCall
    /\ \E tol \in DegreeTols :
          \/ /\ op' = [name |-> "degree_numer", tol |-> tol]
             /\ ret' = <<degree_numer(nodes, values, weights, tol)>>
          \/ /\ op' = [name |-> "degree_denom", tol |-> tol]
             /\ ret' = <<degree_denom(nodes, weights, tol)>>
          \/ /\ op' = [name |-> "degree", tol |-> tol]
             /\ ret' = degree(nodes, values, weights, tol)
    /\ exc' = "none"
    /\ UNCHANGED <<z, f, w, made, nodes, values, weights>>
    /\ UNCHANGED notBR

\* r.numerator(), r.denominator(), r.reduce_order()
NewInstance ==
    /\ made
    /\ op = NoCall
    /\ \E name \in {"numerator", "denominator", "reduce_order"} :
          \E r \in (IF name = "numerator" THEN {numerator(nodes, values, weights)}
                    ELSE IF name = "denominator" THEN {denominator(nodes, weights)}
                    ELSE reduce_order(nodes, values, weights)) :
             /\ op' = [name |-> name]
             /\ ret' = IF r.exc # "none" THEN <<>>
                       ELSE <<[nodes |-> r.nodes, values |-> r.values, weights |-> r.weights,
                               refs |-> r.refs]>>
             /\ exc' = r.exc
    /\ UNCHANGED <<z, f, w, made, nodes, values, weights>>
    /\ UNCHANGED notBR

\* the caller writes into the first entry of an array of the instance a
\* method returned; an array that is an array of self changes in self too
MutateResult ==
    /\ made
    /\ op.name \in {"reciprocal", "numerator", "denominator", "reduce_order"}
    /\ exc = "none"
    /\ \E fld \in {"nodes", "values", "weights"} :
          LET written(a) == [a EXCEPT ![1] = Mark]
              ref == ret[1].refs[fld]
          IN  /\ Len(ret[1][fld]) > 0
              /\ op' = [name |-> "result[0] = v", of |-> op.name, field |-> fld]
              /\ ret' = <<[ret[1] EXCEPT ![fld] = written(@)]>>
              /\ nodes' = IF ref = "self.nodes" THEN written(nodes) ELSE nodes
              /\ values' = IF ref = "self.values" THEN written(values) ELSE values
              /\ weights' = IF ref = "self.weights" THEN written(weights) ELSE weights
    /\ UNCHANGED <<z, f, w, made, exc>>
    /\ UNCHANGED notBR

NextBR ==
    \/ Construct
    \/ Evaluate
    \/ EvaluateDerivative
    \/ Reciprocal
    \/ ReciprocalOfResult
    \/ Jacobians
    \/ Gain
    \/ Degree
    \/ NewInstance
    \/ MutateResult
    \/ Return

(***************************************************************************)
(* aaa.  The samples are pairwise distinct points with finite values.  The *)
(* singular value decomposition is not computed: the residuals N / D it    *)
(* leads to at the samples left in J are drawn from AAAResiduals, and it   *)
(* may fail.  At a support point the residual is exactly zero (R is a copy *)
(* of F there).                                                            *)
(***************************************************************************)
AAAResiduals == {Zero, Norm(1, 2), R(2)}

\* np.argmax: the first index of the largest entry
ArgMax(u) ==
    CHOOSE i \in 1..Len(u) :
        /\ \A j \in 1..Len(u) : RLe(u[j], u[i])
        /\ \A j \in 1..(i - 1) : RLt(u[j], u[i])

\* AAAResidualsAfter without R being a copy of F at the support points
AAAResidualsStale(F, zj, jj, J2) == [1..Len(F) -> AAAResiduals]

\* AAAResidualsAfter with the residual of the first pass left open as well
AAAResidualsAny(F, zj, jj, J2) ==
    {res \in [1..Len(F) -> AAAResiduals] : \A i \in 1..Len(F) : i \notin J2 => res[i] = Zero}

\* abs(F - R) after a pass, lines 450-455, the set of its outcomes.  With the
\* single support point jj the weight is 1 or -1 and N / D is F[jj] at every
\* sample left in J.
AAAResidualsAfter(F, zj, jj, J2) ==
    IF Len(zj) = 0
    THEN {[i \in 1..Len(F) |-> RAbs(RSub(F[i], F[jj]))]}
    ELSE {res \in [1..Len(F) -> AAAResiduals] : \A i \in 1..Len(F) : i \notin J2 => res[i] = Zero}

\* errors[-1] <= reltol, without the equality
AAAStopStrict(err, reltol) == RLt(err, reltol)

\* errors[-1] <= reltol
AAAStop(err, reltol) == RLe(err, reltol)

InitAAA ==
    /\ aaa_F \in SeqsUpTo({R(0), R(1), R(3)}, MaxSamples)
    /\ aaa_tol \in {R(-1), R(0), Norm(1, 2), R(1)}
    /\ aaa_mmax \in 0..MaxIter
    /\ aaa_reltol = Zero
    /\ aaa_J = {}
    /\ aaa_zj = <<>>
    /\ aaa_res = <<>>
    /\ aaa_errors = <<>>
    /\ aaa_wj = FALSE
    /\ aaa_iters = 0
    /\ aaa_pc = "call"
    /\ aaa_exc = "none"

\* lines 412-426: np.linalg.norm(F, np.inf) raises ValueError for no samples
AAAStart ==
    /\ aaa_pc = "call"
    /\ IF Len(aaa_F) = 0
       THEN /\ aaa_pc' = "raised"
            /\ aaa_exc' = "ValueError"
            /\ UNCHANGED <<aaa_reltol, aaa_J, aaa_res>>
       ELSE /\ aaa_pc' = "loop"
            /\ \* reltol = tol * np.linalg.norm(F, np.inf)
               aaa_reltol' = RMul(aaa_tol, MaxAbs(aaa_F))
            /\ aaa_J' = 1..Len(aaa_F)
            /\ \* R = np.mean(F) * np.ones_like(F)
               LET mean == RDiv(VSum(aaa_F), R(Len(aaa_F)))
               IN  aaa_res' = AsArray([i \in 1..Len(aaa_F) |-> RAbs(RSub(aaa_F[i], mean))])
            /\ UNCHANGED aaa_exc
    /\ UNCHANGED <<aaa_F, aaa_tol, aaa_mmax, aaa_zj, aaa_errors, aaa_wj, aaa_iters>>
    /\ UNCHANGED notAAA

\* one pass of the loop body, lines 428-460
AAAIterate ==
    /\ aaa_pc = "loop"
    /\ aaa_iters < aaa_mmax
    /\ LET jj == ArgMax(aaa_res)
           J2 == aaa_J \ {jj}
       IN  /\ aaa_zj' = Append(aaa_zj, jj)
           /\ aaa_iters' = aaa_iters + 1
           /\ \/ \* J.remove(jj) raises when jj is a support point already
                 /\ jj \notin aaa_J
                 /\ aaa_pc' = "raised"
                 /\ aaa_exc' = "ValueError"
                 /\ UNCHANGED <<aaa_J, aaa_res, aaa_errors, aaa_wj>>
              \/ \* np.linalg.svd fails
                 /\ jj \in aaa_J
                 /\ aaa_pc' = "raised"
                 /\ aaa_exc' = "LinAlgError"
                 /\ aaa_J' = J2
                 /\ UNCHANGED <<aaa_res, aaa_errors, aaa_wj>>
              \/ /\ jj \in aaa_J
                 /\ aaa_J' = J2
                 /\ aaa_wj' = TRUE
                 /\ \E res \in AAAResidualsAfter(aaa_F, aaa_zj, jj, J2) :
                       /\ aaa_res' = AsArray(res)
                       /\ aaa_errors' = Append(aaa_errors, MaxAbs(AsArray(res)))
                       /\ aaa_pc' = IF AAAStop(MaxAbs(AsArray(res)), aaa_reltol)
                                    THEN "exit" ELSE "loop"
                 /\ UNCHANGED aaa_exc
    /\ UNCHANGED <<aaa_F, aaa_tol, aaa_mmax, aaa_reltol>>
    /\ UNCHANGED notAAA

\* lines 462-463, after the break or after mmax passes: wj is unbound when
\* the loop body never ran
AAAReturn ==
    /\ \/ aaa_pc = "exit"
       \/ aaa_pc = "loop" /\ aaa_iters >= aaa_mmax
    /\ IF aaa_wj
       THEN aaa_pc' = "returned" /\ UNCHANGED aaa_exc
       ELSE aaa_pc' = "raised" /\ aaa_exc' = "UnboundLocalError"
    /\ UNCHANGED <<aaa_F, aaa_tol, aaa_mmax, aaa_reltol, aaa_J, aaa_zj, aaa_res, aaa_errors,
                   aaa_wj, aaa_iters>>
    /\ UNCHANGED notAAA

NextAAA == AAAStart \/ AAAIterate \/ AAAReturn

(***************************************************************************)
(* brasil, on the interval (a, b) = (0, 8).  The function f and the search *)
(* for the local maxima of the error are not computed: each pass draws the *)
(* local maxima (one per interval between consecutive points of a, nodes,  *)
(* b) from BLocalMax and the place of the largest one from BMaxPlaces.     *)
(***************************************************************************)
IntervalA == R(0)

IntervalB == R(8)

\* deg: (1, 0) interpolates by interpolate_poly, (1, 1) by interpolate_rat,
\* (0, 1) by interpolate_with_degree
BDegSet == {<<1, 0>>, <<1, 1>>, <<0, 1>>}

\* (init_steps, maxiter)
BBudgets == {<<0, 0>>, <<1, 0>>, <<0, 2>>, <<1, 1>>, <<1, 2>>, <<2, 1>>}

NoNodes == <<"None">>

\* nodes0: not given, or an array of 0 to 3 nodes
BNodes0Set == {NoNodes, <<>>, <<R(2)>>, <<R(2), R(4)>>, <<R(2), R(4), R(6)>>}

\* chebyshev_nodes(nn, (0, 8)), each node rounded to a multiple of 1/2
chebyshev_nodes(nn) ==
    CASE nn = 1 -> <<R(4)>>
      [] nn = 2 -> <<R(1), R(7)>>
      [] nn = 3 -> <<Norm(1, 2), R(4), Norm(15, 2)>>

\* np.concatenate(([a], nodes, [b]))
AllNodes(nd) == <<IntervalA>> \o nd \o <<IntervalB>>

HasNaN(u) == \E i \in 1..Len(u) : IsNaN(u[i])

NaNs(n) == AsArray([i \in 1..n |-> NaN])

\* interp(nodes, f(nodes)): the exception it raises, by the routine chosen in
\* lines 916-921; f(nodes) has the length of nodes
BInterpExc(deg, nd) ==
    LET fv == AsArray([i \in 1..Len(nd) |-> R(i)])
        outcomes == IF deg[2] = 0 THEN interpolate_poly(nd, fv)
                    ELSE IF deg[1] = deg[2] THEN interpolate_rat(nd, fv, FALSE)
                    ELSE interpolate_with_degree(nd, fv, deg[1], deg[2], FALSE)
    IN  IF HasNaN(nd)
        THEN \* NaN weights from _polynomial_weights; NaN in the matrix given to
             \* scipy.linalg.qr, which a single node does not reach
             IF deg[2] = 0 \/ (deg[1] = deg[2] /\ Len(nd) = 1) THEN "none" ELSE "ValueError"
        ELSE (CHOOSE o \in outcomes : TRUE).exc

\* lines 929-932 on NaN nodes with npi < 0: in local_maxima_golden the
\* comparisons of _boundary_search and _golden_search are all false on NaN,
\* each calls the other with the arguments it was given, and the search ends
\* in a RecursionError; local_maxima_sample (npi > 0) returns NaN maxima
SearchRaises(npi, nd) == npi < 0 /\ HasNaN(nd)

\* the local maxima a pass may find: all equal to 1 but for at most one
\* interval, or all zero (the error vanishes identically); NaN for NaN nodes
BLocalMax(nd) ==
    IF HasNaN(nd) THEN {NaNs(Len(nd) + 1)}
    ELSE {AsArray([i \in 1..(Len(nd) + 1) |-> IF i = j THEN v ELSE One]) :
             j \in 1..(Len(nd) + 1), v \in {Zero, One, R(2), R(4)}}
         \cup {AsArray([i \in 1..(Len(nd) + 1) |-> Zero])}

\* local_max.max(), local_max.min(): NaN when an entry is NaN
VMax(u) == IF HasNaN(u) THEN NaN ELSE CHOOSE m \in {u[i] : i \in 1..Len(u)} :
                                         \A i \in 1..Len(u) : RLe(u[i], m)

VMin(u) == IF HasNaN(u) THEN NaN ELSE CHOOSE m \in {u[i] : i \in 1..Len(u)} :
                                         \A i \in 1..Len(u) : RLe(m, u[i])

\* np.argmax, np.argmin: the first index of the extreme entry (the first NaN)
VArgMax(u) == CHOOSE i \in 1..Len(u) :
                  /\ IF HasNaN(u) THEN IsNaN(u[i]) ELSE u[i] = VMax(u)
                  /\ \A j \in 1..(i - 1) : IF HasNaN(u) THEN ~IsNaN(u[j]) ELSE u[j] # VMax(u)

VArgMin(u) == CHOOSE i \in 1..Len(u) :
                  /\ IF HasNaN(u) THEN IsNaN(u[i]) ELSE u[i] = VMin(u)
                  /\ \A j \in 1..(i - 1) : IF HasNaN(u) THEN ~IsNaN(u[j]) ELSE u[j] # VMin(u)

\* max_err / local_max.min() - 1
Deviation(lm) == RSub(RDiv(VMax(lm), VMin(lm)), One)

\* deviation <= tol, strictly
BConvergedStrict(deviation, tol) == RLt(deviation, tol)

\* converged = deviation <= tol
BConverged(deviation, tol) == RLe(deviation, tol)

\* where the largest local maximum may lie: inside its interval, or on the
\* boundary a or b for the first or last interval
BMaxPlaces(an, i) ==
    {RDiv(RAdd(an[i], an[i + 1]), R(2))}
    \cup (IF i = 1 THEN {IntervalA} ELSE {})
    \cup (IF i = Len(an) - 1 THEN {IntervalB} ELSE {})

\* nodes.sort()
RECURSIVE SortR(_)
SortR(u) ==
    IF Len(u) = 0 THEN <<>>
    ELSE LET i == VArgMin(u)
         IN  <<u[i]>> \o SortR(DropAt(u, i))

\* Phase1 moving the nearer of the two nodes of the interval
Phase1Nearer(nd, nn, lm, place) ==
    LET max_err_x == IF place = IntervalA THEN RDiv(RAdd(RMul(R(3), IntervalA), nd[1]), R(4))
                     ELSE IF place = IntervalB
                     THEN RDiv(RAdd(nd[Len(nd)], RMul(R(3), IntervalB)), R(4))
                     ELSE place
        min_k == VArgMin(lm) - 1
        closer == RLt(RAbs(RSub(max_err_x, nd[min_k])), RAbs(RSub(max_err_x, nd[min_k + 1])))
        min_j == IF min_k = 0 THEN 0
                 ELSE IF min_k = nn THEN nn - 1
                 ELSE IF closer THEN min_k - 1 ELSE min_k
    IN  [exc |-> "none", nodes |-> SortR([nd EXCEPT ![min_j + 1] = max_err_x])]

\* PHASE 1, lines 969-991: [exc, nodes]; indices are 1-based here
Phase1(nd, nn, lm, place) ==
    LET max_err_x == IF place = IntervalA THEN RDiv(RAdd(RMul(R(3), IntervalA), nd[1]), R(4))
                     ELSE IF place = IntervalB
                     THEN RDiv(RAdd(nd[Len(nd)], RMul(R(3), IntervalB)), R(4))
                     ELSE place
        min_k == VArgMin(lm) - 1
        closer == RLt(RAbs(RSub(max_err_x, nd[min_k])), RAbs(RSub(max_err_x, nd[min_k + 1])))
        min_j == IF min_k = 0 THEN 0
                 ELSE IF min_k = nn THEN nn - 1
                 ELSE IF closer THEN min_k ELSE min_k - 1
    IN  IF min_k # 0 /\ min_k # nn /\ min_k + 1 > Len(nd)
        THEN [exc |-> "IndexError", nodes |-> nd]
        ELSE IF min_j + 1 > Len(nd)
        THEN [exc |-> "IndexError", nodes |-> nd]
        ELSE [exc |-> "none", nodes |-> SortR([nd EXCEPT ![min_j + 1] = max_err_x])]

BGrid == {R(2), R(4), R(6)}

\* the defaults of brasil
max_step_size == Norm(1, 10)

step_factor == Norm(44, 10)

\* min(x, y) of Python
PyMin(x, y) == IF RLt(y, x) THEN y ELSE x

\* the stepsize of BRASILcorrection, lines 1008-1012, for the arguments
\* max_step_size = mss and step_factor = sf
stepsize_of(local_max, mss, sf) ==
    LET mean_err == RDiv(VSum(local_max), R(Len(local_max)))
        sum_err  == RMul(R(Len(local_max)), mean_err)
        max_dev  == VMax(AsArray([i \in 1..Len(local_max) |-> RAbs(RSub(local_max[i], mean_err))]))
    IN  PyMin(mss, RDiv(RMul(sf, max_dev), sum_err))

\* the stepsize of BRASILcorrection with the defaults of brasil
stepsize(local_max) == stepsize_of(local_max, max_step_size, step_factor)

\* base ** e of numpy for the bases 0, 1/64 and 1, e a multiple of 1/6 or
\* NaN: 1 ** NaN is 1, 0 ** e is inf for e < 0
Power(base, e) ==
    IF base = One THEN One
    ELSE IF IsNaN(e) THEN NaN
    ELSE IF base = Zero
    THEN (IF RLt(Zero, e) THEN Zero ELSE IF e = Zero THEN One ELSE PosInf)
    ELSE LET k == (6 * e[1]) \div e[2]
         IN  IF k >= 0 THEN Norm(1, 2 ^ k) ELSE R(2 ^ (0 - k))

\* (local_max - mean_err) / max_dev, line 1011
normalized_dev(local_max) ==
    LET mean_err == RDiv(VSum(local_max), R(Len(local_max)))
        max_dev  == VMax(AsArray([i \in 1..Len(local_max) |-> RAbs(RSub(local_max[i], mean_err))]))
    IN  AsArray([i \in 1..Len(local_max) |-> RDiv(RSub(local_max[i], mean_err), max_dev)])

\* the scaling of the interval lengths, lines 1012-1013
scaling(local_max, mss, sf) ==
    AsArray([i \in 1..Len(local_max) |->
        Power(RSub(One, stepsize_of(local_max, mss, sf)), normalized_dev(local_max)[i])])

\* BRASILcorrectionNodes without the rescaling of line 1017
BRASILcorrectionUnscaled(all_nodes, local_max, a, b, mss, sf) ==
    LET sc   == scaling(local_max, mss, sf)
        intv == AsArray([i \in 1..(Len(all_nodes) - 1) |->
                    RMul(RSub(all_nodes[i + 1], all_nodes[i]), sc[i])])
    IN  AsArray([k \in 1..(Len(intv) - 1) |-> RAdd(VSum(SubSeq(intv, 1, k)), a)])

\* BRASILcorrection computed, lines 1005-1019: the new nodes
BRASILcorrectionNodes(all_nodes, local_max, a, b, mss, sf) ==
    LET sc     == scaling(local_max, mss, sf)
        scaled == AsArray([i \in 1..(Len(all_nodes) - 1) |->
                      RMul(RSub(all_nodes[i + 1], all_nodes[i]), sc[i])])
        factor == RDiv(RSub(b, a), VSum(scaled))
        intv   == AsArray([i \in 1..Len(scaled) |-> RMul(scaled[i], factor)])
    IN  AsArray([k \in 1..(Len(intv) - 1) |-> RAdd(VSum(SubSeq(intv, 1, k)), a)])

\* BRASILcorrection: the set of its outcomes.  Local maxima that are all
\* zero give sum_err = 0 and NaN nodes; equal positive ones give stepsize 0,
\* scaling 1.0 ** NaN = 1 and the nodes as they were; otherwise the interval
\* lengths stay positive and the new nodes are strictly increasing inside
\* (a, b), here on BGrid.
BRASILcorrection(all_nodes, local_max) ==
    LET n == Len(all_nodes) - 2
    IN  IF HasNaN(all_nodes) \/ HasNaN(local_max) \/ VMax(local_max) = Zero
        THEN {NaNs(n)}
        ELSE IF VMax(local_max) = VMin(local_max)
        THEN {SubSeq(all_nodes, 2, n + 1)}
        ELSE {u \in SeqsUpTo(BGrid, n) : Len(u) = n /\ Increasing(u)}

InitBrasil ==
    /\ b_deg \in BDegSet
    /\ b_tol \in {R(1)}
    /\ \E bud \in BBudgets : b_init_steps = bud[1] /\ b_maxiter = bud[2]
    /\ b_npi \in {-2, 2}
    /\ b_info \in BOOLEAN
    /\ b_nodes0 \in BNodes0Set
    /\ b_nodes = <<>>
    /\ b_alias = FALSE
    /\ b_k = 0
    /\ b_errors = <<>>
    /\ b_used = <<>>
    /\ b_pc = "call"
    /\ b_ret = <<>>
    /\ b_exc = "none"

\* lines 896-921; with an empty range the loop body never runs and the
\* function returns None
BrasilStart ==
    /\ b_pc = "call"
    /\ b_nodes' = IF b_nodes0 = NoNodes THEN chebyshev_nodes(b_deg[1] + b_deg[2] + 1)
                  ELSE b_nodes0
    /\ b_alias' = (b_nodes0 # NoNodes)
    /\ IF b_init_steps + b_maxiter = 0
       THEN b_pc' = "returned" /\ b_ret' = <<"None">>
       ELSE b_pc' = "loop" /\ UNCHANGED b_ret
    /\ UNCHANGED <<b_deg, b_tol, b_init_steps, b_maxiter, b_npi, b_info, b_nodes0, b_k, b_errors, b_used,
                   b_exc>>
    /\ UNCHANGED notBrasil

\* a pass in which interp raises, line 924
BrasilInterpRaises ==
    /\ b_pc = "loop"
    /\ BInterpExc(b_deg, b_nodes) # "none"
    /\ b_pc' = "raised"
    /\ b_exc' = BInterpExc(b_deg, b_nodes)
    /\ UNCHANGED <<b_deg, b_tol, b_init_steps, b_maxiter, b_npi, b_info, b_nodes0, b_nodes, b_alias,
                   b_k, b_errors, b_used, b_ret>>
    /\ UNCHANGED notBrasil

\* a pass in which the search for the local maxima raises, lines 929-932
BrasilSearchRaises ==
    /\ b_pc = "loop"
    /\ BInterpExc(b_deg, b_nodes) = "none"
    /\ SearchRaises(b_npi, b_nodes)
    /\ b_pc' = "raised"
    /\ b_exc' = "RecursionError"
    /\ UNCHANGED <<b_deg, b_tol, b_init_steps, b_maxiter, b_npi, b_info, b_nodes0, b_nodes,
                   b_alias, b_k, b_errors, b_used, b_ret>>
    /\ UNCHANGED notBrasil

Info(converged, error, deviation, nd, iterations, errs) ==
    [converged |-> converged, error |-> error, deviation |-> deviation, nodes |-> nd,
     iterations |-> iterations,
     errors |-> AsArray([i \in 1..Len(errs) |-> errs[i][1]]),
     deviations |-> AsArray([i \in 1..Len(errs) |-> errs[i][2]]),
     stepsizes |-> AsArray([i \in 1..Len(errs) |-> errs[i][3]])]

\* a pass that returns, lines 924-964: r is the interpolant on the nodes of
\* this pass
BrasilReturn ==
    /\ b_pc = "loop"
    /\ BInterpExc(b_deg, b_nodes) = "none"
    /\ ~SearchRaises(b_npi, b_nodes)
    /\ \E lm \in BLocalMax(b_nodes) :
          LET max_err == VMax(lm)
              deviation == Deviation(lm)
              errs == Append(b_errors, <<max_err, deviation, NaN>>)
              converged == BConverged(deviation, b_tol)
              r == [nodes |-> b_nodes, k |-> b_k]
          IN  /\ converged \/ b_k = b_init_steps + b_maxiter - 1
              /\ b_errors' = errs
              /\ b_ret' = IF b_info
                          THEN <<r, Info(converged, max_err, deviation, b_nodes, b_k, errs)>>
                          ELSE <<r>>
    /\ b_pc' = "returned"
    /\ UNCHANGED <<b_deg, b_tol, b_init_steps, b_maxiter, b_npi, b_info, b_nodes0, b_nodes, b_alias,
                   b_k, b_used, b_exc>>
    /\ UNCHANGED notBrasil

\* a pass of PHASE 1, lines 924-938 and 966-991: the node is moved in place,
\* so the caller's array changes while nodes is that array
BrasilPhase1 ==
    /\ b_pc = "loop"
    /\ BInterpExc(b_deg, b_nodes) = "none"
    /\ ~SearchRaises(b_npi, b_nodes)
    /\ b_k < b_init_steps
    /\ \E lm \in BLocalMax(b_nodes) :
          LET deviation == Deviation(lm)
              nn == b_deg[1] + b_deg[2] + 1
          IN  /\ ~(BConverged(deviation, b_tol) \/ b_k = b_init_steps + b_maxiter - 1)
              /\ b_errors' = Append(b_errors, <<VMax(lm), deviation, NaN>>)
              /\ \E place \in BMaxPlaces(AllNodes(b_nodes), VArgMax(lm)) :
                    LET p1 == Phase1(b_nodes, nn, lm, place)
                    IN  IF p1.exc # "none"
                        THEN /\ b_pc' = "raised"
                             /\ b_exc' = p1.exc
                             /\ UNCHANGED <<b_nodes, b_nodes0, b_k>>
                        ELSE /\ b_nodes' = p1.nodes
                             /\ b_nodes0' = IF b_alias THEN p1.nodes ELSE b_nodes0
                             /\ b_k' = b_k + 1
                             /\ UNCHANGED <<b_pc, b_exc>>
    /\ UNCHANGED <<b_deg, b_tol, b_init_steps, b_maxiter, b_npi, b_info, b_alias, b_used, b_ret>>
    /\ UNCHANGED notBrasil

\* a pass of PHASE 2, lines 924-938 and 993-997: nodes is bound to a new array
BrasilPhase2 ==
    /\ b_pc = "loop"
    /\ BInterpExc(b_deg, b_nodes) = "none"
    /\ ~SearchRaises(b_npi, b_nodes)
    /\ b_k >= b_init_steps
    /\ \E lm \in BLocalMax(b_nodes) :
          LET deviation == Deviation(lm)
          IN  /\ ~(BConverged(deviation, b_tol) \/ b_k = b_init_steps + b_maxiter - 1)
              /\ b_errors' = Append(b_errors, <<VMax(lm), deviation, NaN>>)
              /\ b_nodes' \in BRASILcorrection(AllNodes(b_nodes), lm)
              /\ b_used' = Append(b_used, stepsize(lm))
    /\ b_alias' = FALSE
    /\ b_k' = b_k + 1
    /\ UNCHANGED <<b_deg, b_tol, b_init_steps, b_maxiter, b_npi, b_info, b_nodes0, b_pc, b_ret, b_exc>>
    /\ UNCHANGED notBrasil

NextBrasil ==
    \/ BrasilStart
    \/ BrasilInterpRaises
    \/ BrasilSearchRaises
    \/ BrasilReturn
    \/ BrasilPhase1
    \/ BrasilPhase2

(***************************************************************************)
(* bpane and brane.  The function f, the interpolation, the search for the *)
(* local maxima and the linear solve are not computed: each pass draws the *)
(* local maxima from NLocalMax, the signs of the errors there from         *)
(* NSignPatterns and the Newton step from NSteps.  The node vector x is    *)
(* kept as the count of its replacements.                                  *)
(***************************************************************************)
\* len(initial_nodes) for nn = 2: not given, right, too short, too long
NInitialNodes == {-1, 1, 2, 3}

\* the local maxima a pass may find, one per interval
NLocalMax(cnt) ==
    {AsArray([i \in 1..cnt |-> IF i = 1 THEN v ELSE One]) : v \in {Zero, One, R(2), R(4)}}
    \cup {AsArray([i \in 1..cnt |-> Zero])}

\* the signs of f - p at the local maxima: alternating from +, alternating
\* from -, or all positive
NSignPatterns(cnt) ==
    {AsArray([i \in 1..cnt |-> IF i % 2 = 1 THEN 1 ELSE -1]),
     AsArray([i \in 1..cnt |-> IF i % 2 = 1 THEN -1 ELSE 1]),
     AsArray([i \in 1..cnt |-> 1])}

\* signed_errs = f(local_max_x) - p(local_max_x)
SignedErrs(lm, sg) == AsArray([i \in 1..Len(lm) |-> RMul(R(sg[i]), lm[i])])

\* w = (-1)**np.arange(nn + 1); equalized_errs = signed_errs / w
EqualizedErrs(se) ==
    AsArray([i \in 1..Len(se) |-> RDiv(se[i], R(IF i % 2 = 1 THEN 1 ELSE -1))])

\* all(equalized_errs >= 0) or all(equalized_errs <= 0)
EqualSigns(se) ==
    LET eq == EqualizedErrs(se)
    IN  \/ \A i \in 1..Len(eq) : RLe(Zero, eq[i])
        \/ \A i \in 1..Len(eq) : RLe(eq[i], Zero)

\* the outcomes of the linear solve: a finite step that is admissible after
\* h halvings of tau, a step with a NaN component, a step with an infinite
\* component and no NaN, or an exception of the solver
NSteps ==
    {[kind |-> "finite", h |-> h] : h \in 0..MaxHalvings}
    \cup {[kind |-> "nan"], [kind |-> "inf"], [kind |-> "raises"]}

NoStep == [kind |-> "none"]

\* any(np.isnan(dxl)), line 1162
Breakdown(dxl) == dxl.kind = "nan"

\* all(a < x_new) and all(x_new < b) and all(np.diff(x_new) > 0) for
\* x_new = x + tau * dxl[:-1] after the given number of halvings of tau: every
\* comparison with a NaN is false, and an infinite node is outside (a, b)
Admissible(dxl, halvings) == dxl.kind = "finite" /\ halvings >= dxl.h

\* bpane: equal_signs and dev < tol, line 1183
BpaneConverged(se, lm, tol) == EqualSigns(se) /\ RLt(Deviation(lm), tol)

\* brane: dev < tol, line 1365
BraneConverged(se, lm, tol) == RLt(Deviation(lm), tol)

\* Info(local_max.max(), lam, dev, x, it)
NInfo(lm, xv, it) == [error |-> VMax(lm), deviation |-> Deviation(lm), nodes |-> xv,
                      iterations |-> it]

InitNewton ==
    /\ n_alg \in {"bpane", "brane"}
    /\ n_nn = 2
    /\ n_initial_nodes \in (IF n_alg = "brane" THEN NInitialNodes ELSE {-1})
    /\ n_maxiter \in {0, 1, 2}
    /\ n_tol \in {Norm(3, 2)}
    /\ n_info \in BOOLEAN
    /\ n_it = 0
    /\ n_x = 0
    /\ n_local_max = <<>>
    /\ n_signed_errs = <<>>
    /\ n_dxl = NoStep
    /\ n_halvings = 0
    /\ n_pc = "call"
    /\ n_ret = <<>>
    /\ n_exc = "none"

\* lines 1128-1134 and 1336-1346: brane tests the length of initial_nodes
NewtonStart ==
    /\ n_pc = "call"
    /\ IF n_alg = "brane" /\ n_initial_nodes # -1 /\ n_initial_nodes # n_nn
       THEN n_pc' = "raised" /\ n_exc' = "ValueError"
       ELSE n_pc' = "loop" /\ UNCHANGED n_exc
    /\ UNCHANGED <<n_alg, n_nn, n_initial_nodes, n_maxiter, n_tol, n_info, n_it, n_x,
                   n_local_max, n_signed_errs, n_dxl, n_halvings, n_ret>>
    /\ UNCHANGED notNewton

\* bpane, lines 1137-1166: a pass up to the step-halving loop
BpaneStep ==
    /\ n_pc = "loop"
    /\ n_alg = "bpane"
    /\ n_it < n_maxiter
    /\ \E lm \in NLocalMax(n_nn + 1), sg \in NSignPatterns(n_nn + 1), dxl \in NSteps :
          /\ n_local_max' = lm
          /\ n_signed_errs' = SignedErrs(lm, sg)
          /\ n_dxl' = dxl
          /\ IF dxl.kind = "raises"
             THEN n_pc' = "raised" /\ n_exc' = "LinAlgError"
             ELSE IF Breakdown(dxl)
             THEN n_pc' = "raised" /\ n_exc' = "RuntimeError"
             ELSE n_pc' = "halving" /\ UNCHANGED n_exc
    /\ n_halvings' = 0
    /\ UNCHANGED <<n_alg, n_nn, n_initial_nodes, n_maxiter, n_tol, n_info, n_it, n_x, n_ret>>
    /\ UNCHANGED notNewton

\* brane, lines 1348-1382: a pass up to the step-halving loop; the test of
\* convergence comes before the Newton step
BraneStep ==
    /\ n_pc = "loop"
    /\ n_alg = "brane"
    /\ n_it < n_maxiter
    /\ \E lm \in NLocalMax(n_nn + 1), sg \in NSignPatterns(n_nn + 1) :
          LET se == SignedErrs(lm, sg)
          IN  /\ n_local_max' = lm
              /\ n_signed_errs' = se
              /\ IF BraneConverged(se, lm, n_tol)
                 THEN /\ n_pc' = "returned"
                      /\ n_ret' = IF n_info THEN <<[x |-> n_x], NInfo(lm, n_x, n_it)>>
                                  ELSE <<[x |-> n_x]>>
                      /\ UNCHANGED <<n_dxl, n_exc>>
                 ELSE \E dxl \in NSteps :
                      /\ n_dxl' = dxl
                      /\ IF dxl.kind = "raises"
                         THEN n_pc' = "raised" /\ n_exc' = "ProviderError"
                         ELSE n_pc' = "halving" /\ UNCHANGED n_exc
                      /\ UNCHANGED n_ret
    /\ n_halvings' = 0
    /\ UNCHANGED <<n_alg, n_nn, n_initial_nodes, n_maxiter, n_tol, n_info, n_it, n_x>>
    /\ UNCHANGED notNewton

\* the step-halving loop, lines 1167-1173 and 1383-1389: x_new is not
\* admissible and tau is halved (the count stops at MaxHalvings + 1, the loop
\* does not)
HalveTau ==
    /\ n_pc = "halving"
    /\ ~Admissible(n_dxl, n_halvings)
    /\ n_halvings' = IF n_halvings <= MaxHalvings THEN n_halvings + 1 ELSE n_halvings
    /\ UNCHANGED <<n_alg, n_nn, n_initial_nodes, n_maxiter, n_tol, n_info, n_it, n_x,
                   n_local_max, n_signed_errs, n_dxl, n_pc, n_ret, n_exc>>
    /\ UNCHANGED notNewton

\* the break out of the step-halving loop and the rest of the pass, lines
\* 1171-1190 and 1387-1390: x is replaced; bpane then tests for convergence and
\* returns p, which interpolates at the nodes before the replacement
AcceptStep ==
    /\ n_pc = "halving"
    /\ Admissible(n_dxl, n_halvings)
    /\ n_x' = n_x + 1
    /\ IF n_alg = "bpane" /\ BpaneConverged(n_signed_errs, n_local_max, n_tol)
       THEN /\ n_pc' = "returned"
            /\ n_ret' = IF n_info THEN <<[x |-> n_x], NInfo(n_local_max, n_x + 1, n_it)>>
                        ELSE <<[x |-> n_x]>>
            /\ UNCHANGED n_it
       ELSE /\ n_pc' = "loop"
            /\ n_it' = n_it + 1
            /\ UNCHANGED n_ret
    /\ UNCHANGED <<n_alg, n_nn, n_initial_nodes, n_maxiter, n_tol, n_info,
                   n_local_max, n_signed_errs, n_dxl, n_halvings, n_exc>>
    /\ UNCHANGED notNewton

\* lines 1191 and 1394: the loop ran maxiter passes
NoConvergence ==
    /\ n_pc = "loop"
    /\ n_it >= n_maxiter
    /\ n_pc' = "raised"
    /\ n_exc' = "RuntimeError"
    /\ UNCHANGED <<n_alg, n_nn, n_initial_nodes, n_maxiter, n_tol, n_info, n_it, n_x,
                   n_local_max, n_signed_errs, n_dxl, n_halvings, n_ret>>
    /\ UNCHANGED notNewton

NextNewton ==
    \/ NewtonStart
    \/ BpaneStep
    \/ BraneStep
    \/ HalveTau
    \/ AcceptStep
    \/ NoConvergence

(***************************************************************************)
(* poles, zeros and polres: which root solver runs, and in which           *)
(* precision.  An array is [dtype, len, elem], elem the type of its        *)
(* elements; an instance is [nodes, values, weights].  A call yields       *)
(* [solver, precision, exc]; the eigenvalues themselves are not modelled.  *)
(***************************************************************************)
\* numpy float64, or python float, gmpy2 mpfr or gmpy2 mpc in an object array
ElemTypes == {"float64", "float", "mpfr", "mpc"}

MpTypes == {"mpfr", "mpc"}

NdArray(elem, n) ==
    [dtype |-> IF elem = "float64" THEN "float64" ELSE "O", len |-> n, elem |-> elem]

\* the module-level names gmpy2 and flamp: both imported, or both None
gmpy2 == rcall.installed

flamp == rcall.installed

is_mp_array(x) == gmpy2 /\ x.dtype = "O" /\ x.len > 0 /\ x.elem \in MpTypes

\* self.weights * self.values
Times(a, b) ==
    NdArray(IF "mpc" \in {a.elem, b.elem} THEN "mpc"
            ELSE IF "mpfr" \in {a.elem, b.elem} THEN "mpfr"
            ELSE IF a.elem = "float64" /\ b.elem = "float64" THEN "float64"
            ELSE "float", a.len)

\* np.ones_like(self.values)
ones_like(a) == [a EXCEPT !.elem = IF a.dtype = "O" THEN "int" ELSE a.elem]

compute_roots(wA, xA, use_mp) ==
    IF use_mp \/ is_mp_array(wA) \/ is_mp_array(xA)
    THEN IF ~flamp
         THEN [solver |-> "_compute_roots", precision |-> "none", exc |-> "AssertionError"]
         ELSE [solver |-> "_compute_roots", precision |-> "extended", exc |-> "none"]
    ELSE [solver |-> "_compute_roots", precision |-> "standard", exc |-> "none"]

compute_roots2(zA, fA, wA) ==
    [solver |-> "_compute_roots2", precision |-> "standard", exc |-> "none"]

uses_mp(self) ==
    is_mp_array(self.nodes) \/ is_mp_array(self.values) \/ is_mp_array(self.weights)

\* poles handing its own flag on to _compute_roots
polesPassFlag(self, use_mp) ==
    IF use_mp \/ uses_mp(self)
    THEN compute_roots(self.weights, self.nodes, use_mp)
    ELSE compute_roots2(self.nodes, ones_like(self.values), self.weights)

poles(self, use_mp) ==
    IF use_mp \/ uses_mp(self)
    THEN compute_roots(self.weights, self.nodes, TRUE)
    ELSE compute_roots2(self.nodes, ones_like(self.values), self.weights)

\* the residues are computed from the poles by array arithmetic
polres(self, use_mp) == poles(self, IF uses_mp(self) THEN TRUE ELSE use_mp)

zeros(self, use_mp) ==
    IF use_mp \/ uses_mp(self)
    THEN compute_roots(Times(self.weights, self.values), self.nodes, TRUE)
    ELSE compute_roots2(self.nodes, self.values, self.weights)

\* the instances: three arrays of one length.  Elements of a gmpy2 type
\* exist only where the packages are installed.
RInstances(installed) ==
    LET types == IF installed THEN ElemTypes ELSE ElemTypes \ MpTypes
    IN  {[nodes |-> NdArray(en, n), values |-> NdArray(ev, n), weights |-> NdArray(ew, n)] :
            en \in types, ev \in types, ew \in types, n \in 0..MaxLen}

InitRoots ==
    /\ \E inst \in BOOLEAN : \E s \in RInstances(inst) :
       \E mt \in {"poles", "zeros", "polres"} : \E mp \in BOOLEAN :
           rcall = [method |-> mt, installed |-> inst, self |-> s, use_mp |-> mp]
    /\ rret = Pending

Poles ==
    /\ rret = Pending
    /\ rcall.method = "poles"
    /\ rret' = poles(rcall.self, rcall.use_mp)
    /\ UNCHANGED rcall
    /\ UNCHANGED notRoots

Zeros ==
    /\ rret = Pending
    /\ rcall.method = "zeros"
    /\ rret' = zeros(rcall.self, rcall.use_mp)
    /\ UNCHANGED rcall
    /\ UNCHANGED notRoots

Polres ==
    /\ rret = Pending
    /\ rcall.method = "polres"
    /\ rret' = polres(rcall.self, rcall.use_mp)
    /\ UNCHANGED rcall
    /\ UNCHANGED notRoots

NextRoots == Poles \/ Zeros \/ Polres

(***************************************************************************)
(* local_maxima_sample, local_maxima_bisect, local_maxima_golden and the   *)
(* two searches on a boundary interval.  The function g is one of a few    *)
(* piecewise linear functions, named by a string.  A search yields         *)
(* [exc, x, gx]; a call of local_maxima_* yields [exc, Z, gZ].  The        *)
(* golden mean (3 - sqrt(5)) / 2 = 0.38... is replaced by 3/8.             *)
(***************************************************************************)
\* the largest number of nodes of a partition
MaxPartition == 4

\* the largest num_iter, and the largest N of local_maxima_sample
MaxNumIter == 2

golden_mean == Norm(3, 8)

GNames == {"x", "-x", "tent", "valley", "one", "sqrt", "nan"}

\* g(x)
G(g, x) ==
    CASE g = "x" -> x
      [] g = "-x" -> RNeg(x)
      [] g = "tent" -> RSub(R(4), RAbs(RSub(x, Norm(5, 2))))
      [] g = "valley" -> RAbs(RSub(x, Norm(3, 2)))
      [] g = "one" -> One
      [] g = "sqrt" -> IF RLt(x, One) THEN NaN ELSE RSub(x, One)
      [] g = "nan" -> NaN

Half(a, b) == RDiv(RAdd(a, b), R(2))

\* np.argmax: the first NaN if there is one, else the first largest entry
NpArgMax(u) ==
    IF HasNaN(u) THEN CHOOSE i \in 1..Len(u) : IsNaN(u[i]) /\ \A j \in 1..(i - 1) : ~IsNaN(u[j])
    ELSE ArgMax(u)

\* what a search returns; reentered tells whether _golden_search called
\* _boundary_search back on the way
Found(x, gx) == [exc |-> "none", x |-> x, gx |-> gx, reentered |-> FALSE]

RecursionError == [exc |-> "RecursionError", reentered |-> TRUE]

\* the loop of _golden_search from pass k on
RECURSIVE GoldenLoop(_, _, _, _, _, _, _)
GoldenLoop(g, a, b, c, gb, k, num_iter) ==
    IF k >= num_iter THEN Found(b, gb)
    ELSE LET mid == Half(a, c)
             x   == IF RLt(mid, b) THEN RAdd(b, RMul(golden_mean, RSub(a, b)))
                    ELSE RAdd(b, RMul(golden_mean, RSub(c, b)))
             gx  == G(g, x)
         IN  IF RLt(gb, gx)
             THEN IF RLt(b, x) THEN GoldenLoop(g, b, x, c, gx, k + 1, num_iter)
                  ELSE GoldenLoop(g, a, x, b, gx, k + 1, num_iter)
             ELSE IF RLt(x, b) THEN GoldenLoop(g, x, b, c, gb, k + 1, num_iter)
                  ELSE GoldenLoop(g, a, b, x, gb, k + 1, num_iter)

\* MaxSide choosing the side of the smaller value
MaxSideFlipped(ga, gc) == IF RLe(gc, ga) THEN 2 ELSE 1

\* max_side of _boundary_search, 1-based
MaxSide(ga, gc) == IF RLe(gc, ga) THEN 1 ELSE 2

\* _boundary_search(g, a, c, num_iter) leaves its first pass by calling
\* _golden_search(g, a, c, num_iter)
FirstPassCallsGolden(g, a, c, num_iter) ==
    LET Xvals == <<G(g, a), G(g, c)>>
    IN  num_iter > 0 /\ ~RLt(G(g, Half(a, c)), Xvals[MaxSide(Xvals[1], Xvals[2])])

RECURSIVE BoundaryLoop(_, _, _, _, _, _)
RECURSIVE boundary_search(_, _, _, _)
RECURSIVE golden_search(_, _, _, _)
\* the loop of _boundary_search from pass k on
BoundaryLoop(g, X, Xvals, max_side, k, num_iter) ==
    IF k >= num_iter THEN Found(X[max_side], Xvals[max_side])
    ELSE LET other_side == 3 - max_side
             xm == Half(X[1], X[2])
             gm == G(g, xm)
         IN  IF RLt(gm, Xvals[max_side])
             THEN BoundaryLoop(g, [X EXCEPT ![other_side] = xm],
                               [Xvals EXCEPT ![other_side] = gm], max_side, k + 1, num_iter)
             ELSE golden_search(g, X[1], X[2], num_iter - k)

boundary_search(g, a, c, num_iter) ==
    LET Xvals == <<G(g, a), G(g, c)>>
    IN  BoundaryLoop(g, <<a, c>>, Xvals, MaxSide(Xvals[1], Xvals[2]), 0, num_iter)

\* where the interval is not bracketed and _boundary_search would call back
\* with the very same arguments, the two call each other without end
golden_search(g, a, c, num_iter) ==
    LET b  == Half(a, c)
        gb == G(g, b)
    IN  IF ~(RLe(G(g, a), gb) /\ RLe(G(g, c), gb))
        THEN IF FirstPassCallsGolden(g, a, c, num_iter) THEN RecursionError
             ELSE [boundary_search(g, a, c, num_iter) EXCEPT !.reentered = TRUE]
        ELSE GoldenLoop(g, a, b, c, gb, 0, num_iter)

\* one column j of the loop of local_maxima_golden: z = (z[0,j], z[1,j], z[2,j])
RECURSIVE GoldenColumn(_, _, _, _, _)
GoldenColumn(g, zc, gB, k, num_iter) ==
    IF k >= num_iter THEN <<zc[2], gB>>
    ELSE LET mids == Half(zc[1], zc[3])
             far  == IF RLe(zc[2], mids) THEN zc[3] ELSE zc[1]
             x    == RAdd(zc[2], RMul(golden_mean, RSub(far, zc[2])))
             gx   == G(g, x)
             b    == zc[2]
         IN  IF RLt(gB, gx)
             THEN IF RLt(b, x) THEN GoldenColumn(g, <<b, x, zc[3]>>, gx, k + 1, num_iter)
                  ELSE GoldenColumn(g, <<zc[1], x, b>>, gx, k + 1, num_iter)
             ELSE IF RLt(x, b) THEN GoldenColumn(g, <<x, b, zc[3]>>, gB, k + 1, num_iter)
                  ELSE GoldenColumn(g, <<zc[1], b, x>>, gB, k + 1, num_iter)

\* one column j of the loop of local_maxima_bisect
RECURSIVE BisectColumn(_, _, _, _, _)
BisectColumn(g, zc, val, k, num_iter) ==
    IF k >= num_iter THEN <<zc[2], val>>
    ELSE LET q    == <<Half(zc[1], zc[2]), Half(zc[2], zc[3])>>
             qval == <<G(g, q[1]), G(g, q[2])>>
             maxk == NpArgMax(<<qval[1], val, qval[2]>>) - 1
         IN  IF maxk = 0 THEN BisectColumn(g, <<zc[1], q[1], zc[2]>>, qval[1], k + 1, num_iter)
             ELSE IF maxk = 1 THEN BisectColumn(g, <<q[1], zc[2], q[2]>>, val, k + 1, num_iter)
             ELSE BisectColumn(g, <<zc[2], q[2], zc[3]>>, qval[2], k + 1, num_iter)

\* Z, gZ of the interior columns with the two boundary searches around them
WithBoundaries(g, nd, cols) ==
    LET first == boundary_search(g, nd[1], nd[2], 3)
        last  == boundary_search(g, nd[Len(nd) - 1], nd[Len(nd)], 3)
    IN  IF first.exc # "none" THEN [exc |-> first.exc, Z |-> <<>>, gZ |-> <<>>]
        ELSE IF last.exc # "none" THEN [exc |-> last.exc, Z |-> <<>>, gZ |-> <<>>]
        ELSE [exc |-> "none",
              Z   |-> <<first.x>> \o AsArray([j \in 1..Len(cols) |-> cols[j][1]]) \o <<last.x>>,
              gZ  |-> <<first.gx>> \o AsArray([j \in 1..Len(cols) |-> cols[j][2]]) \o <<last.gx>>]

\* nodes[1:-2], nodes[2:-1] hold max(len(nodes) - 3, 0) entries
Interior(nd) == IF Len(nd) >= 3 THEN Len(nd) - 3 ELSE 0

local_maxima_bisect(g, nd, num_iter) ==
    WithBoundaries(g, nd,
        AsArray([j \in 1..Interior(nd) |->
            LET lo == nd[j + 1]
                hi == nd[j + 2]
            IN  BisectColumn(g, <<lo, Half(lo, hi), hi>>, G(g, Half(lo, hi)), 0, num_iter)]))

local_maxima_golden(g, nd, num_iter) ==
    WithBoundaries(g, nd,
        AsArray([j \in 1..Interior(nd) |->
            LET lo == nd[j + 1]
                hi == nd[j + 2]
                b  == RAdd(lo, RMul(RSub(hi, lo), golden_mean))
            IN  GoldenColumn(g, <<lo, b, hi>>, G(g, b), 0, num_iter)]))

\* np.linspace(a, c, n, endpoint)
linspace(a, c, n, endpoint) ==
    LET div == IF endpoint THEN n - 1 ELSE n
    IN  AsArray([i \in 1..n |->
            IF i = 1 THEN a ELSE RAdd(a, RMul(R(i - 1), RDiv(RSub(c, a), R(div))))])

\* piecewise_mesh with every row starting at the first node
piecewise_meshFromFirst(nd, n, i) == linspace(nd[1], nd[i + 1], n, i = Len(nd) - 1)

\* row i of _piecewise_mesh(nodes, n).reshape((-1, n)), 1-based
piecewise_mesh(nd, n, i) == linspace(nd[i], nd[i + 1], n, i = Len(nd) - 1)

local_maxima_sample(g, nd, n) ==
    LET row(i)  == piecewise_mesh(nd, n, i)
        vals(i) == AsArray([k \in 1..n |-> G(g, row(i)[k])])
        maxk(i) == NpArgMax(vals(i))
    IN  [exc |-> "none",
         Z   |-> AsArray([i \in 1..(Len(nd) - 1) |-> row(i)[maxk(i)]]),
         gZ  |-> AsArray([i \in 1..(Len(nd) - 1) |-> vals(i)[maxk(i)]])]

\* the partitions: strictly increasing, with at least 3 nodes
Partitions == {u \in SeqsUpTo({R(0), R(1), R(2), R(3), R(5)}, MaxPartition) :
                  Len(u) >= 3 /\ Increasing(u)}

\* the intervals (a, c) with a < c handed to _boundary_search, as nodes
Intervals == {u \in SeqsUpTo({R(0), R(1), R(2), R(3), R(5)}, 2) : Len(u) = 2 /\ Increasing(u)}

InitMaxima ==
    /\ \/ \E fn \in {"local_maxima_sample", "local_maxima_bisect", "local_maxima_golden"} :
          \E g \in GNames : \E nd \in Partitions : \E n \in 0..MaxNumIter :
              /\ fn = "local_maxima_sample" => n >= 1
              /\ mcall = [fn |-> fn, g |-> g, nodes |-> nd, n |-> n]
       \/ \E g \in GNames : \E nd \in Intervals : \E n \in 0..(MaxNumIter + 1) :
              mcall = [fn |-> "_boundary_search", g |-> g, nodes |-> nd, n |-> n]
    /\ mret = Pending

LocalMaximaSample ==
    /\ mret = Pending
    /\ mcall.fn = "local_maxima_sample"
    /\ mret' = local_maxima_sample(mcall.g, mcall.nodes, mcall.n)
    /\ UNCHANGED mcall
    /\ UNCHANGED notMaxima

LocalMaximaBisect ==
    /\ mret = Pending
    /\ mcall.fn = "local_maxima_bisect"
    /\ mret' = local_maxima_bisect(mcall.g, mcall.nodes, mcall.n)
    /\ UNCHANGED mcall
    /\ UNCHANGED notMaxima

LocalMaximaGolden ==
    /\ mret = Pending
    /\ mcall.fn = "local_maxima_golden"
    /\ mret' = local_maxima_golden(mcall.g, mcall.nodes, mcall.n)
    /\ UNCHANGED mcall
    /\ UNCHANGED notMaxima

\* _boundary_search(g, a, c, num_iter) with (a, c) = nodes; the pair it
\* returns is kept as Z, gZ of length 1
BoundarySearch ==
    /\ mret = Pending
    /\ mcall.fn = "_boundary_search"
    /\ LET r == boundary_search(mcall.g, mcall.nodes[1], mcall.nodes[2], mcall.n)
       IN  mret' = IF r.exc # "none"
                   THEN [exc |-> r.exc, Z |-> <<>>, gZ |-> <<>>, reentered |-> r.reentered]
                   ELSE [exc |-> "none", Z |-> <<r.x>>, gZ |-> <<r.gx>>,
                         reentered |-> r.reentered]
    /\ UNCHANGED mcall
    /\ UNCHANGED notMaxima

NextMaxima == LocalMaximaSample \/ LocalMaximaBisect \/ LocalMaximaGolden \/ BoundarySearch

(***************************************************************************)
(* The step-size loop of bpane (lines 1165-1174) and brane (lines          *)
(* 1381-1390) on actual numbers.  damp is [pc, alg, x, lam, dxl, tau, it,  *)
(* old]: x the nodes, dxl the Newton direction (its last entry belongs to  *)
(* lambda), old the x and lam before the last accepted update.  The        *)
(* direction is whatever the linear solve returns, here any finite vector  *)
(* over a small set.                                                       *)
(***************************************************************************)
\* the largest number of Newton passes followed
MaxPasses == 2

\* the entries of a Newton direction
DirSet == {R(-8), R(0), R(3)}

\* x + tau * dxl[:-1]
XNew(x, tau, dxl) == AsArray([i \in 1..Len(x) |-> RAdd(x[i], RMul(tau, dxl[i]))])

\* the test of line 1170 without np.diff(x_new) > 0
InsideOnly(x_new) ==
    \A i \in 1..Len(x_new) : RLt(IntervalA, x_new[i]) /\ RLt(x_new[i], IntervalB)

\* all(a < x_new) and all(x_new < b) and all(np.diff(x_new) > 0)
StepAccepted(x_new) ==
    /\ \A i \in 1..Len(x_new) : RLt(IntervalA, x_new[i])
    /\ \A i \in 1..Len(x_new) : RLt(x_new[i], IntervalB)
    /\ \A i \in 1..(Len(x_new) - 1) : RLt(Zero, RSub(x_new[i + 1], x_new[i]))

InitDamping ==
    \E alg \in {"bpane", "brane"} :
    \E x \in {u \in SeqsUpTo(BGrid, 2) : Len(u) >= 1 /\ Increasing(u)} :
    \E lam \in {R(1)} :
        damp = [pc |-> "solve", alg |-> alg, x |-> x, lam |-> lam, dxl |-> <<>>,
                tau |-> One, it |-> 0, old |-> [x |-> x, lam |-> lam]]

\* dxl = -np.linalg.solve(Jac, rhs) (flamp.lu_solve in brane) with a finite
\* result, and tau = 1
DampSolve ==
    /\ damp.pc = "solve"
    /\ \E dxl \in SeqsUpTo(DirSet, Len(damp.x) + 1) :
          /\ Len(dxl) = Len(damp.x) + 1
          /\ damp' = [damp EXCEPT !.pc = "halving", !.dxl = dxl, !.tau = One]
    /\ UNCHANGED notDamping

\* a pass of the while loop that takes the else branch: tau *= 0.5
DampHalve ==
    /\ damp.pc = "halving"
    /\ ~StepAccepted(XNew(damp.x, damp.tau, damp.dxl))
    /\ damp' = [damp EXCEPT !.tau = RMul(damp.tau, Norm(1, 2))]
    /\ UNCHANGED notDamping

\* the pass of the while loop that breaks, and x, lam = x_new, lam_new
DampAccept ==
    /\ damp.pc = "halving"
    /\ StepAccepted(XNew(damp.x, damp.tau, damp.dxl))
    /\ damp' = [damp EXCEPT
                   !.pc = IF damp.it + 1 >= MaxPasses THEN "done" ELSE "solve",
                   !.old = [x |-> damp.x, lam |-> damp.lam],
                   !.x = XNew(damp.x, damp.tau, damp.dxl),
                   !.lam = RAdd(damp.lam, RMul(damp.tau, damp.dxl[Len(damp.dxl)])),
                   !.it = damp.it + 1]
    /\ UNCHANGED notDamping

NextDamping == DampSolve \/ DampHalve \/ DampAccept

(***************************************************************************)
(* One pass of the loop of brasil from line 934 on, computed: the nodes of *)
(* the pass, the local maxima found and the place of the largest one are   *)
(* given.  The power of line 1013 is rational for the step sizes 0, 63/64  *)
(* and 1 and deviations that are multiples of 1/6, and the passes are      *)
(* drawn from those.                                                       *)
(***************************************************************************)
MaxStepNodes == 3

\* nodes of a pass of PHASE 1: sorted, inside (a, b)
StepNodes ==
    {u \in SeqsUpTo(BGrid, MaxStepNodes) :
        Len(u) >= 1 /\ \A i \in 1..(Len(u) - 1) : RLe(u[i], u[i + 1])}

\* the local maxima of a pass: positive, or zero throughout
StepMaxima(n) ==
    {u \in SeqsUpTo({One, R(2), R(3)}, n) : Len(u) = n}
    \cup {AsArray([i \in 1..n |-> Zero])}

\* the power of line 1013 is rational
ExactScaling(local_max) ==
    LET dev == normalized_dev(local_max)
    IN  \A i \in 1..Len(dev) :
            IF IsNaN(dev[i]) THEN TRUE ELSE (6 * dev[i][1]) % dev[i][2] = 0

\* where the largest local maximum may lie in its interval
StepPlaces(an, i) == {an[i], RDiv(RAdd(an[i], an[i + 1]), R(2)), an[i + 1]}

InitStep ==
    /\ \E nd \in StepNodes : \E lm \in StepMaxima(Len(nd) + 1) :
       \E tol \in {R(-1), Zero} : \E last \in BOOLEAN :
          \/ \E place \in StepPlaces(AllNodes(nd), VArgMax(lm)) :
                scall = [fn |-> "brasil", phase |-> 1, last |-> last, tol |-> tol,
                         nodes |-> nd, local_max |-> lm, place |-> place,
                         max_step_size |-> max_step_size, step_factor |-> step_factor]
          \/ \E mss \in {Zero, Norm(63, 64), One} :
                /\ Increasing(nd)
                /\ ExactScaling(lm)
                /\ scall = [fn |-> "brasil", phase |-> 2, last |-> last, tol |-> tol,
                            nodes |-> nd, local_max |-> lm,
                            place |-> AllNodes(nd)[VArgMax(lm)],
                            max_step_size |-> mss, step_factor |-> R(64)]
    /\ sret = Pending

\* converged or k == init_steps + maxiter - 1, lines 934-939
StepReturns ==
    BConverged(Deviation(scall.local_max), scall.tol) \/ scall.last

\* the pass returns, lines 939-964
StepReturn ==
    /\ sret = Pending
    /\ scall.fn = "brasil"
    /\ StepReturns
    /\ sret' = [exc |-> "none", kind |-> "returned", nodes |-> scall.nodes]
    /\ UNCHANGED scall
    /\ UNCHANGED notStep

\* PHASE 1, lines 966-991
StepPhase1 ==
    /\ sret = Pending
    /\ scall.fn = "brasil"
    /\ ~StepReturns
    /\ scall.phase = 1
    /\ LET p1 == Phase1(scall.nodes, Len(scall.nodes), scall.local_max, scall.place)
       IN  sret' = [exc |-> p1.exc, kind |-> "moved", nodes |-> p1.nodes]
    /\ UNCHANGED scall
    /\ UNCHANGED notStep

\* PHASE 2 with ctype 'c-f-h', lines 993-997
StepPhase2 ==
    /\ sret = Pending
    /\ scall.fn = "brasil"
    /\ ~StepReturns
    /\ scall.phase = 2
    /\ sret' = [exc |-> "none", kind |-> "corrected",
                nodes |-> BRASILcorrectionNodes(AllNodes(scall.nodes), scall.local_max,
                                                IntervalA, IntervalB,
                                                scall.max_step_size, scall.step_factor)]
    /\ UNCHANGED scall
    /\ UNCHANGED notStep

NextStep == StepReturn \/ StepPhase1 \/ StepPhase2

(***************************************************************************)
(* The specifications: one per entry point family.  The variables of the   *)
(* other families stay at their idle values.                               *)
(***************************************************************************)
IdleBR ==
    /\ z = <<>>
    /\ f = <<>>
    /\ w = <<>>
    /\ made = FALSE
    /\ nodes = <<>>
    /\ values = <<>>
    /\ weights = <<>>
    /\ op = NoCall
    /\ ret = <<>>
    /\ exc = "none"

IdleInterp ==
    /\ icall = [fn |-> "none"]
    /\ iret = Pending

IdleAAA ==
    /\ aaa_F = <<>>
    /\ aaa_tol = Zero
    /\ aaa_mmax = 0
    /\ aaa_reltol = Zero
    /\ aaa_J = {}
    /\ aaa_zj = <<>>
    /\ aaa_res = <<>>
    /\ aaa_errors = <<>>
    /\ aaa_wj = FALSE
    /\ aaa_iters = 0
    /\ aaa_pc = "idle"
    /\ aaa_exc = "none"

IdleBrasil ==
    /\ b_deg = <<0, 0>>
    /\ b_tol = Zero
    /\ b_init_steps = 0
    /\ b_maxiter = 0
    /\ b_npi = 0
    /\ b_info = FALSE
    /\ b_nodes0 = NoNodes
    /\ b_nodes = <<>>
    /\ b_alias = FALSE
    /\ b_k = 0
    /\ b_errors = <<>>
    /\ b_used = <<>>
    /\ b_pc = "idle"
    /\ b_ret = <<>>
    /\ b_exc = "none"

IdleNewton ==
    /\ n_alg = "none"
    /\ n_nn = 0
    /\ n_initial_nodes = -1
    /\ n_maxiter = 0
    /\ n_tol = Zero
    /\ n_info = FALSE
    /\ n_it = 0
    /\ n_x = 0
    /\ n_local_max = <<>>
    /\ n_signed_errs = <<>>
    /\ n_dxl = NoStep
    /\ n_halvings = 0
    /\ n_pc = "idle"
    /\ n_ret = <<>>
    /\ n_exc = "none"

IdleRoots ==
    /\ rcall = [method |-> "none"]
    /\ rret = Pending

IdleMaxima ==
    /\ mcall = [fn |-> "none"]
    /\ mret = Pending

IdleDamping == damp = [pc |-> "idle"]

IdleStep ==
    /\ scall = [fn |-> "none"]
    /\ sret = Pending

IdleRest == IdleRoots /\ IdleMaxima /\ IdleDamping /\ IdleStep

Init == InitBR /\ IdleInterp /\ IdleAAA /\ IdleBrasil /\ IdleNewton /\ IdleRest

Spec == Init /\ [][NextBR]_vars

InitI == InitInterp /\ IdleBR /\ IdleAAA /\ IdleBrasil /\ IdleNewton /\ IdleRest

SpecInterp == InitI /\ [][NextInterp]_vars

InitA == InitAAA /\ IdleBR /\ IdleInterp /\ IdleBrasil /\ IdleNewton /\ IdleRest

SpecAAA == InitA /\ [][NextAAA]_vars

InitB == InitBrasil /\ IdleBR /\ IdleInterp /\ IdleAAA /\ IdleNewton /\ IdleRest

SpecBrasil == InitB /\ [][NextBrasil]_vars

InitN == InitNewton /\ IdleBR /\ IdleInterp /\ IdleAAA /\ IdleBrasil /\ IdleRest

SpecNewton == InitN /\ [][NextNewton]_vars

IdleFive == IdleBR /\ IdleInterp /\ IdleAAA /\ IdleBrasil /\ IdleNewton

InitR == InitRoots /\ IdleFive /\ IdleMaxima /\ IdleDamping /\ IdleStep

SpecRoots == InitR /\ [][NextRoots]_vars

InitM == InitMaxima /\ IdleFive /\ IdleRoots /\ IdleDamping /\ IdleStep

SpecMaxima == InitM /\ [][NextMaxima]_vars

InitD == InitDamping /\ IdleFive /\ IdleRoots /\ IdleMaxima /\ IdleStep

SpecDamping == InitD /\ [][NextDamping]_vars

InitS == InitStep /\ IdleFive /\ IdleRoots /\ IdleMaxima /\ IdleDamping

SpecStep == InitS /\ [][NextStep]_vars

(***************************************************************************)
(* Properties of BarycentricRational, under Spec.                          *)
(***************************************************************************)
IsNodeAt(x, j) == j \in 1..Len(nodes) /\ x = nodes[j]

C2_Construct ==
    /\ made => (Len(nodes) = Len(values) /\ Len(values) = Len(weights))
    /\ (op.name = "__init__" /\ ~(Len(z) = Len(f) /\ Len(f) = Len(w))) =>
          (exc = "ValueError" /\ ~made /\ nodes = <<>> /\ values = <<>> /\ weights = <<>>)
    /\ (op.name = "__init__" /\ Len(z) = Len(f) /\ Len(f) = Len(w)) =>
          (exc = "none" /\ made /\ nodes = z /\ values = f /\ weights = w)

\* the constructor has raised for arguments whose first two lengths agree
C2_Witness ==
    /\ op.name = "__init__"
    /\ exc = "ValueError"
    /\ Len(z) = Len(f)
    /\ Len(f) # Len(w)
    /\ ~made

\* C9 as stated: eval_deriv raises NotImplementedError for every k > 2 and
\* every x, the empty array included, and for k = 0 returns what Evaluate does.
C9_Original ==
    op.name = "eval_deriv" =>
        /\ op.k > 2 => exc = "NotImplementedError"
        /\ op.k = 0 => (exc = "none" /\ ret = call(nodes, values, weights, op.x).v)

\* C9 amended: eval_deriv raises NotImplementedError for every k > 2 at every
\* scalar x (on a node or not) and every non-empty array x; for the empty
\* array it returns the empty array without raising; k = 0 is Evaluate.
C9_DerivOrderLimit ==
    op.name = "eval_deriv" =>
        /\ (op.k > 2 /\ (op.x.scalar \/ Len(op.x.v) > 0)) =>
              (exc = "NotImplementedError" /\ ret = <<>>)
        /\ (op.k > 2 /\ ~op.x.scalar /\ Len(op.x.v) = 0) =>
              (exc = "none" /\ ret = <<>>)
        /\ op.k = 0 => (exc = "none" /\ ret = call(nodes, values, weights, op.x).v)
        /\ op.k \in {1, 2} => (exc = "none" /\ Len(ret) = Len(op.x.v))

\* order 3 was asked at a scalar that is a node, and the call raised
C9_Witness ==
    /\ op.name = "eval_deriv"
    /\ op.k > 2
    /\ op.x.scalar
    /\ \E j \in 1..Len(nodes) : IsNodeAt(op.x.v[1], j)
    /\ exc = "NotImplementedError"

\* C10 as stated: reciprocal raises, returning no instance, when a stored
\* value is exactly zero; otherwise it returns (nodes, 1/values, weights*values).
C10_Original ==
    op.name = "reciprocal" =>
        IF \E j \in 1..Len(values) : values[j] = Zero
        THEN exc # "none" /\ ret = <<>>
        ELSE /\ exc = "none"
             /\ ret[1].nodes = nodes
             /\ \A j \in 1..Len(nodes) :
                   /\ ret[1].values[j] = RDiv(One, values[j])
                   /\ ret[1].weights[j] = RMul(weights[j], values[j])

\* C11: for an instance whose values are all nonzero,
\* r.reciprocal().reciprocal() has the nodes, the values and (in exact
\* arithmetic) the weights of r, and so evaluates like r at every point,
\* node or not.
C11_ReciprocalInvolution ==
    (op.name = "reciprocal.reciprocal" /\ \A j \in 1..Len(values) : values[j] # Zero) =>
        /\ exc = "none"
        /\ ret[1].nodes = nodes
        /\ ret[1].values = values
        /\ ret[1].weights = weights
        /\ \A x \in XSet :
              CallAt(ret[1].nodes, ret[1].values, ret[1].weights, x)
                 = CallAt(nodes, values, weights, x)

\* the reciprocal of the reciprocal of an instance with two nodes, two
\* different nonzero values and two nonzero weights
C11_Witness ==
    /\ op.name = "reciprocal.reciprocal"
    /\ values = <<R(2), R(-1)>>
    /\ weights = <<One, R(-1)>>
    /\ ret[1].weights = weights
    /\ ret[1].values = values

\* C12: no method changes the stored nodes, values and weights, and no
\* instance returned by reciprocal, numerator, denominator or reduce_order
\* (either branch) shares an array with the instance it was made from, so
\* writing into the result leaves the source as it was.
C12_QueriesArePure ==
    made =>
        /\ nodes = z
        /\ values = f
        /\ weights = w
        /\ (/\ op.name \in {"reciprocal", "reciprocal.reciprocal", "numerator", "denominator",
                            "reduce_order"}
            /\ exc = "none") => ret[1].refs = Fresh

\* reduce_order took the reduced branch, and the caller wrote into the nodes
\* of the instance it returned
C12_Witness ==
    /\ op.name = "result[0] = v"
    /\ op.of = "reduce_order"
    /\ op.field = "nodes"
    /\ Len(ret[1].nodes) < Len(nodes)
    /\ ret[1].nodes[1] = Mark
    /\ nodes = z

\* whether |sum_j c_j * nodes_j^d| > tol
DefectAbove(c, d, tol) ==
    RLt(tol, RAbs(VSum(AsArray([j \in 1..Len(nodes) |-> RMul(c[j], RPow(nodes[j], d))]))))

\* the degree detected from the coefficients c is deg
DetectedFrom(c, tol, deg) ==
    LET N == Len(nodes) - 1
    IN  \/ /\ deg = 0
           /\ \A d \in 0..(N - 1) : ~DefectAbove(c, d, tol)
        \/ \E d \in 0..(N - 1) :
              /\ DefectAbove(c, d, tol)
              /\ \A e \in 0..(d - 1) : ~DefectAbove(c, e, tol)
              /\ deg = N - d

\* what the degree query returned is right, and a pair for degree(tol)
DegreesDetected ==
    /\ op.name = "degree_numer" => DetectedFrom(VMul(values, weights), op.tol, ret[1])
    /\ op.name = "degree_denom" => DetectedFrom(weights, op.tol, ret[1])
    /\ op.name = "degree" =>
          /\ Len(ret) = 2
          /\ DetectedFrom(VMul(values, weights), op.tol, ret[1])
          /\ DetectedFrom(weights, op.tol, ret[2])

\* C17 as stated: the degree queries return N - d for the smallest defect d
\* above tol and 0 when there is none, and the result is always in 0..N.
C17_Original ==
    op.name \in {"degree_numer", "degree_denom", "degree"} =>
        /\ DegreesDetected
        /\ \A i \in 1..Len(ret) : ret[i] \in 0..(Len(nodes) - 1)

\* C17: the degree queries return N - d for the smallest defect d above tol
\* and 0 when there is none; with at least one node the result is in 0..N,
\* and without nodes (N = -1) it is 0.
C17_DegreeDetection ==
    op.name \in {"degree_numer", "degree_denom", "degree"} =>
        /\ DegreesDetected
        /\ \A i \in 1..Len(ret) :
              IF Len(nodes) >= 1 THEN ret[i] \in 0..(Len(nodes) - 1) ELSE ret[i] = 0

\* degree(tol) found the defect 1 in the numerator and in the denominator of
\* an instance with three nodes
C17_Witness ==
    /\ op.name = "degree"
    /\ Len(nodes) = 3
    /\ ret = <<1, 1>>

(***************************************************************************)
(* Properties of the interpolation constructors, under SpecInterp.         *)
(***************************************************************************)
\* the precondition of each constructor, as documented, fails
PreconditionFails(c) ==
    CASE c.fn = "interpolate_poly" -> Len(c.nodes) # Len(c.values)
      [] c.fn = "interpolate_rat" ->
            Len(c.nodes) # Len(c.values) \/ Len(c.values) % 2 = 0
      [] c.fn = "interpolate_with_degree" ->
            Len(c.nodes) # c.m + c.n + 1 \/ Len(c.values) # c.m + c.n + 1
      [] c.fn = "interpolate_with_poles" ->
            Len(c.nodes) # Len(c.values) \/ Len(c.nodes) # Len(c.poles) + 1
      [] c.fn = "floater_hormann" ->
            \/ Len(c.nodes) # Len(c.values)
            \/ ~(0 <= c.blending /\ c.blending <= Len(c.nodes) - 1)

ZeroRowCall(c) ==
    \/ c.fn = "interpolate_rat" /\ Len(c.nodes) = 1 /\ Len(c.values) = 1
    \/ c.fn = "interpolate_with_poles" /\ Len(c.nodes) = 1 /\ Len(c.values) = 1
          /\ Len(c.poles) = 0

\* C15 as stated: for a matrix without rows, and for either value of use_mp,
\* _nullspace_vector returns e0 without raising, so interpolate_rat on a single
\* node and interpolate_with_poles with one node and no pole return an
\* instance with weights [1].
C15_Original ==
    (iret # Pending /\ ZeroRowCall(icall)) =>
        /\ iret.exc = "none"
        /\ iret.weights = <<One>>

\* u = c * v for a scalar c # 0
ScalarMultiple(u, v) ==
    /\ Len(u) = Len(v)
    /\ Len(u) >= 1
    /\ v[1] # Zero
    /\ u[1] # Zero
    /\ \A i \in 1..Len(u) : u[i] = RMul(RDiv(u[1], v[1]), v[i])

Decreasing(u) == \A i \in 1..(Len(u) - 1) : RLt(u[i + 1], u[i])

\* floater_hormann was called with as many values as nodes and the largest
\* blending parameter
MaximalBlending(c) ==
    /\ c.fn = "floater_hormann"
    /\ Len(c.values) = Len(c.nodes)
    /\ c.blending = Len(c.nodes) - 1

C3_AAATermination ==
    /\ aaa_iters <= aaa_mmax
    /\ Len(aaa_errors) <= aaa_iters
    /\ \A i \in 1..(Len(aaa_errors) - 1) : RLt(aaa_reltol, aaa_errors[i])
    /\ aaa_pc = "loop" => \A i \in 1..Len(aaa_errors) : RLt(aaa_reltol, aaa_errors[i])
    /\ aaa_pc = "exit" => RLe(aaa_errors[Len(aaa_errors)], aaa_reltol)
    /\ aaa_pc = "returned" =>
          /\ Len(aaa_zj) = aaa_iters
          /\ Len(aaa_errors) = aaa_iters
          /\ aaa_iters < aaa_mmax => RLe(aaa_errors[Len(aaa_errors)], aaa_reltol)

\* aaa returned after two iterations, before mmax, the second being the first
\* with an error within reltol
C3_Witness ==
    /\ aaa_pc = "returned"
    /\ aaa_iters = 2
    /\ aaa_iters < aaa_mmax
    /\ RLt(Zero, aaa_reltol)
    /\ RLe(aaa_errors[2], aaa_reltol)

\* abs(F - np.mean(F)), per sample
AAAInitialResiduals ==
    LET mean == RDiv(VSum(aaa_F), R(Len(aaa_F)))
    IN  AsArray([i \in 1..Len(aaa_F) |-> RAbs(RSub(aaa_F[i], mean))])

\* C18 as stated: when every sample of F is within tol * max|F| of the mean
\* of F, aaa returns an instance with a single support point after exactly
\* one iteration.
C18_Original ==
    (/\ aaa_pc = "returned"
     /\ \A i \in 1..Len(aaa_F) : RLe(AAAInitialResiduals[i], aaa_reltol)) =>
        /\ aaa_iters = 1
        /\ Len(aaa_zj) = 1

\* C18: the first support point is the sample farthest from the mean of F,
\* and the error of iteration 0 is the largest distance of a sample from the
\* value at that support point; when that error is within tol * max|F|, aaa
\* stops after exactly one iteration and returns an instance with a single
\* support point.
C18_AAADegenerate ==
    Len(aaa_errors) >= 1 =>
        LET j1 == aaa_zj[1]
        IN  /\ j1 = ArgMax(AAAInitialResiduals)
            /\ aaa_errors[1] = MaxAbs(AsArray([i \in 1..Len(aaa_F) |->
                                                  RSub(aaa_F[i], aaa_F[j1])]))
            /\ RLe(aaa_errors[1], aaa_reltol) =>
                  /\ aaa_pc \in {"exit", "returned"}
                  /\ aaa_iters = 1
                  /\ Len(aaa_zj) = 1
                  /\ Len(aaa_errors) = 1

\* aaa returned after one of three allowed iterations, with one support point
\* for three samples that are not all equal
C18_Witness ==
    /\ aaa_pc = "returned"
    /\ Len(aaa_F) = 3
    /\ aaa_F[1] # aaa_F[2]
    /\ aaa_mmax = 3
    /\ Len(aaa_zj) = 1
    /\ RLe(aaa_errors[1], aaa_reltol)

(***************************************************************************)
(* Properties of brasil, under SpecBrasil.                                 *)
(***************************************************************************)
Budget == b_init_steps + b_maxiter

\* C4: with init_steps + maxiter >= 1, a call whose budget is exhausted
\* without a deviation <= tol raises nothing: it returns the approximant of
\* the last pass with converged = false; converged is true exactly when the
\* reported deviation is <= tol.
C4_BrasilNonConvergence ==
    /\ (Budget >= 1 /\ Len(b_errors) = Budget) => b_pc = "returned"
    /\ (Budget >= 1 /\ b_pc = "returned") =>
          LET deviation == b_errors[Len(b_errors)][2]
          IN  /\ Len(b_errors) = b_k + 1
              /\ b_ret[1] = [nodes |-> b_nodes, k |-> b_k]
              /\ ~RLe(deviation, b_tol) => b_k = Budget - 1
              /\ b_info =>
                    /\ b_ret[2].deviation = deviation
                    /\ b_ret[2].converged <=> RLe(deviation, b_tol)

\* the budget of three passes ran out with a finite deviation above tol, and
\* the call returned converged = false
C4_Witness ==
    /\ b_pc = "returned"
    /\ b_info
    /\ Budget = 3
    /\ b_k = 2
    /\ RLt(b_tol, b_ret[2].deviation)
    /\ IsFinite(b_ret[2].deviation)
    /\ ~b_ret[2].converged

\* C8 as stated, for brasil: a call with nodes0 of a length other than
\* m + n + 1 raises ValueError at once, before any pass of the iteration.
C8_Original ==
    (Budget >= 1 /\ b_nodes0 # NoNodes /\ Len(b_nodes0) # b_deg[1] + b_deg[2] + 1) =>
        /\ b_pc \in {"call", "loop", "raised"}
        /\ b_errors = <<>>
        /\ b_pc = "raised" => b_exc = "ValueError"

\* C13 as stated: brasil leaves the contents of the caller's array nodes0
\* as they were, whatever init_steps, maxiter and npi are.
C13_Original == [][b_nodes0' = b_nodes0]_vars

\* C20 as stated: in the diagnostics record returned by brasil, iterations
\* equals the number of entries of each of errors, deviations and stepsizes,
\* one entry per executed iteration.
C20_Original ==
    (b_pc = "returned" /\ b_info /\ Budget >= 1) =>
        /\ b_ret[2].iterations = Len(b_ret[2].errors)
        /\ b_ret[2].iterations = Len(b_ret[2].deviations)
        /\ b_ret[2].iterations = Len(b_ret[2].stepsizes)

(***************************************************************************)
(* Properties of bpane and brane, under SpecNewton.                        *)
(***************************************************************************)
\* C5 as stated: bpane and brane raise RuntimeError when maxiter is exhausted
\* and when the Newton step is not finite (NaN or infinite); they never return
\* an unconverged approximant and never enter the step-halving loop with a
\* step that is not finite.
C5_Original ==
    /\ (n_pc = "raised" /\ n_it >= n_maxiter /\ n_initial_nodes \in {-1, n_nn}) =>
          n_exc = "RuntimeError"
    /\ (n_pc = "raised" /\ n_dxl.kind \in {"nan", "inf"}) => n_exc = "RuntimeError"
    /\ n_pc = "halving" => n_dxl.kind = "finite"
    /\ n_pc = "returned" => RLt(Deviation(n_local_max), n_tol)

\* C6 as stated: bpane and brane return only when the equalized signed errors
\* at the local maxima share one sign and the deviation is below tol.
C6_Original ==
    n_pc = "returned" =>
        /\ EqualSigns(n_signed_errs)
        /\ RLt(Deviation(n_local_max), n_tol)

\* C19 as stated: in the diagnostics record returned by bpane and brane, nodes
\* is the node vector at which the returned approximant was interpolated.
C19_Original ==
    (n_pc = "returned" /\ n_info) => n_ret[2].nodes = n_ret[1].x

(***************************************************************************)
(* Properties of poles, zeros and polres, under SpecRoots.                 *)
(***************************************************************************)
\* the array holds extended-precision numbers
HoldsExtended(x) == x.len > 0 /\ x.elem \in MpTypes

\* C16: poles, zeros and polres use the diagonal-outer-product solver
\* (_compute_roots) exactly when use_mp is true or a stored array holds
\* extended-precision numbers, and the companion-pencil solver
\* (_compute_roots2) otherwise; _compute_roots never runs in standard precision.
C16_RootSolverSelection ==
    rret # Pending =>
        LET s == rcall.self
            requested == \/ rcall.use_mp
                         \/ HoldsExtended(s.nodes)
                         \/ HoldsExtended(s.values)
                         \/ HoldsExtended(s.weights)
        IN  /\ rret.solver = IF requested THEN "_compute_roots" ELSE "_compute_roots2"
            /\ rret.solver = "_compute_roots" => rret.precision # "standard"

\* poles() without the flag on an instance whose values alone are mpfr ran
\* the diagonal-outer-product solver in extended precision
C16_Witness ==
    /\ rcall.method = "poles"
    /\ ~rcall.use_mp
    /\ rcall.self.values.elem = "mpfr"
    /\ rcall.self.values.len = 2
    /\ rcall.self.nodes.elem = "float64"
    /\ rcall.self.weights.elem = "float64"
    /\ rret = [solver |-> "_compute_roots", precision |-> "extended", exc |-> "none"]


(***************************************************************************)
(* Properties of local_maxima_*, under SpecMaxima.                         *)
(***************************************************************************)
\* C14: for a strictly increasing partition with at least 3 nodes, what
\* local_maxima_sample, local_maxima_bisect and local_maxima_golden return
\* is len(nodes) - 1 pairs (location, value); the k-th location lies in
\* [nodes[k], nodes[k+1]], so the locations are ordered left to right, and
\* each value is g at its location.
C14_LocalMaximaContract ==
    (mret # Pending /\ mret.exc = "none") =>
        LET nd == mcall.nodes
        IN  /\ Len(mret.Z) = Len(nd) - 1
            /\ Len(mret.gZ) = Len(nd) - 1
            /\ \A k \in 1..Len(mret.Z) :
                  /\ RLe(nd[k], mret.Z[k]) /\ RLe(mret.Z[k], nd[k + 1])
                  /\ mret.gZ[k] = G(mcall.g, mret.Z[k])
            /\ \A k \in 1..(Len(mret.Z) - 1) : RLe(mret.Z[k], mret.Z[k + 1])

\* local_maxima_golden on four nodes returned three pairs, the middle one
\* strictly inside its interval
C14_Witness ==
    /\ mcall.fn = "local_maxima_golden"
    /\ mcall.g = "tent"
    /\ mcall.n = MaxNumIter
    /\ Len(mcall.nodes) = 4
    /\ mret.exc = "none"
    /\ Len(mret.Z) = 3
    /\ RLt(mcall.nodes[2], mret.Z[2]) /\ RLt(mret.Z[2], mcall.nodes[3])


(***************************************************************************)
(* Further properties of brasil, under SpecBrasil.                         *)
(***************************************************************************)
\* C21 as stated: in the record returned by brasil, the entry of stepsizes
\* for a pass that follows a refinement-phase update is the step size
\* min(max_step_size, step_factor * max_dev / sum_err) that the update used.
C21_Original ==
    (b_pc = "returned" /\ b_info /\ Budget >= 1) =>
        \A j \in 1..Len(b_used) :
            b_ret[2].stepsizes[b_init_steps + j + 1] = b_used[j]


(***************************************************************************)
(* Properties of the step-size loop of bpane and brane, under SpecDamping. *)
(***************************************************************************)
\* the nodes are strictly increasing and strictly inside (a, b)
Feasible(x) ==
    /\ Increasing(x)
    /\ \A i \in 1..Len(x) : RLt(IntervalA, x[i]) /\ RLt(x[i], IntervalB)

\* after an accepted update: as many nodes as before, feasible again, and
\* nodes and lambda moved along dxl by the same factor tau
DampedUpdate ==
    (damp.pc \in {"solve", "done"} /\ damp.it >= 1) =>
        /\ Len(damp.x) = Len(damp.old.x)
        /\ Feasible(damp.x)
        /\ damp.x = XNew(damp.old.x, damp.tau, damp.dxl)
        /\ damp.lam = RAdd(damp.old.lam, RMul(damp.tau, damp.dxl[Len(damp.dxl)]))
        /\ RLt(Zero, damp.tau) /\ RLe(damp.tau, One)

\* the smallest distance between neighbours in (a, x, b)
Gap(x) ==
    LET an == AllNodes(x)
    IN  VMin(AsArray([i \in 1..(Len(an) - 1) |-> RSub(an[i + 1], an[i])]))

\* the largest |dxl[i]| over the node entries of the direction
Reach(x, dxl) == VMax(AsArray([i \in 1..Len(x) |-> RAbs(dxl[i])]))

\* a step size the loop stays above: with tau * Reach <= Gap / 2 no node
\* passes a neighbour or an end of the interval, so the loop has left before
\* tau falls to half of that
TauFloor(x, dxl) ==
    IF Reach(x, dxl) = Zero THEN Norm(1, 2)
    ELSE PyMin(Norm(1, 2), RDiv(Gap(x), RMul(R(4), Reach(x, dxl))))

\* C23: in bpane and brane, from nodes strictly increasing and strictly
\* inside (a, b) and for every finite Newton direction, the halving loop
\* terminates; after every accepted update the nodes are again strictly
\* increasing and strictly inside (a, b), as many as before, and lambda was
\* updated with the same damping factor as the nodes.  Termination: tau stays
\* above a positive floor fixed by x and dxl, so the halvings are bounded.
C23_StepDamping ==
    /\ damp.pc # "idle" => Feasible(damp.x)
    /\ DampedUpdate
    /\ damp.pc = "halving" => RLt(TauFloor(damp.x, damp.dxl), damp.tau)

\* the second update was accepted after the step had been halved
C23_Witness ==
    /\ damp.pc = "done"
    /\ damp.it = 2
    /\ Len(damp.x) = 2
    /\ RLt(damp.tau, Norm(1, 2))
    /\ damp.x # damp.old.x


(***************************************************************************)
(* Properties of _boundary_search, under SpecMaxima.                       *)
(***************************************************************************)
\* g has no NaN value: its values are totally ordered
TotallyOrdered(g) == g \notin {"sqrt", "nan"}

\* C27: for g with totally ordered values, a < c and num_iter >= 0,
\* _boundary_search(g, a, c, num_iter) terminates without the recursion with
\* _golden_search being re-entered; the location returned lies in [a, c], the
\* value returned is g there and is >= max(g(a), g(c)).
C27_BoundarySearch ==
    (mret # Pending /\ mcall.fn = "_boundary_search" /\ TotallyOrdered(mcall.g)) =>
        LET a == mcall.nodes[1]
            c == mcall.nodes[2]
        IN  /\ mret.exc = "none"
            /\ ~mret.reentered
            /\ RLe(a, mret.Z[1]) /\ RLe(mret.Z[1], c)
            /\ mret.gZ[1] = G(mcall.g, mret.Z[1])
            /\ RLe(G(mcall.g, a), mret.gZ[1])
            /\ RLe(G(mcall.g, c), mret.gZ[1])

\* on (1, 5) with the peak of g inside, three passes found a bracket and
\* returned an interior point above both end values
C27_Witness ==
    /\ mcall.fn = "_boundary_search"
    /\ mcall.g = "tent"
    /\ mcall.n = 3
    /\ mcall.nodes = <<R(1), R(5)>>
    /\ mret.exc = "none"
    /\ RLt(R(1), mret.Z[1]) /\ RLt(mret.Z[1], R(5))
    /\ RLt(G("tent", R(1)), mret.gZ[1]) /\ RLt(G("tent", R(5)), mret.gZ[1])


(***************************************************************************)
(* The node updates of brasil, under SpecStep.                             *)
(***************************************************************************)
\* every node lies strictly inside (a, b)
InsideInterval(nd) ==
    \A i \in 1..Len(nd) : RLt(IntervalA, nd[i]) /\ RLt(nd[i], IntervalB)

NonDecreasing(nd) == \A i \in 1..(Len(nd) - 1) : RLe(nd[i], nd[i + 1])

\* where PHASE 1 puts the node: the place of the largest local maximum, or
\* a point inside the first or last interval when that place is a or b
Target(nd, place) ==
    IF place = IntervalA THEN RDiv(RAdd(RMul(R(3), IntervalA), nd[1]), R(4))
    ELSE IF place = IntervalB THEN RDiv(RAdd(nd[Len(nd)], RMul(R(3), IntervalB)), R(4))
    ELSE place

\* the nodes (1-based) that may be moved for the interval k (1-based) with
\* the smallest local maximum
Movable(nd, k, x) ==
    IF k = 1 THEN {1}
    ELSE IF k = Len(nd) + 1 THEN {Len(nd)}
    ELSE {j \in {k - 1, k} :
             \A o \in {k - 1, k} : RLe(RAbs(RSub(x, nd[o])), RAbs(RSub(x, nd[j])))}

\* C24: PHASE 1 moves an endpoint of an interval with the smallest local
\* maximum (the first node for the first interval, the last node for the last
\* one, otherwise the bounding node farther from the target) to the place of
\* the largest local maximum, or to a point strictly inside the adjacent
\* boundary interval when that place is a or b; afterwards the nodes are as
\* many as before, sorted and strictly inside (a, b).
C24_InitPhaseStep ==
    (sret # Pending /\ sret.kind = "moved") =>
        LET nd == scall.nodes
            lm == scall.local_max
            x  == Target(nd, scall.place)
        IN  /\ sret.exc = "none"
            /\ \E k \in 1..Len(lm) :
                  /\ \A i \in 1..Len(lm) : RLe(lm[k], lm[i])
                  /\ \E j \in Movable(nd, k, x) : sret.nodes = SortR([nd EXCEPT ![j] = x])
            /\ scall.place = IntervalA => RLt(IntervalA, x) /\ RLt(x, nd[1])
            /\ scall.place = IntervalB => RLt(nd[Len(nd)], x) /\ RLt(x, IntervalB)
            /\ scall.place \notin {IntervalA, IntervalB} => x = scall.place
            /\ Len(sret.nodes) = Len(nd)
            /\ NonDecreasing(sret.nodes)
            /\ InsideInterval(sret.nodes)

\* the largest error is at b and the smallest in the second interval, (2, 4):
\* the node 2, farther from the target 7.5 than 4, is moved there
C24_Witness ==
    /\ sret # Pending
    /\ sret.kind = "moved"
    /\ scall.nodes = <<R(2), R(4), R(6)>>
    /\ scall.place = IntervalB
    /\ VArgMin(scall.local_max) = 2
    /\ sret.nodes = <<R(4), R(6), Norm(15, 2)>>

\* np.diff
Diff(u) == AsArray([i \in 1..(Len(u) - 1) |-> RSub(u[i + 1], u[i])])

\* the local maxima are positive and not all equal
PositiveUnequal(lm) == RLt(Zero, VMin(lm)) /\ VMax(lm) # VMin(lm)

\* PHASE 2 was applied in the pass
Corrected == sret # Pending /\ sret.kind = "corrected"

\* the step size of the pass
StepUsed == stepsize_of(scall.local_max, scall.max_step_size, scall.step_factor)

\* C25: for strictly increasing nodes inside (a, b), positive local maxima
\* that are not all equal and a step size in [0, 1), BRASILcorrection returns
\* as many nodes as it was given, the new interval lengths are positive and
\* sum to b - a, so the new nodes are strictly increasing inside (a, b), and
\* an interval with a larger local maximum is scaled by a factor no larger
\* than one with a smaller local maximum; for tol >= 0 the correction is
\* never applied to equal positive local maxima, the pass returning first.
C25_RefinementStep ==
    /\ (Corrected /\ PositiveUnequal(scall.local_max)
          /\ RLe(Zero, StepUsed) /\ RLt(StepUsed, One)) =>
          LET lm    == scall.local_max
              old   == Diff(AllNodes(scall.nodes))
              new   == Diff(AllNodes(sret.nodes))
              s(i)  == RDiv(new[i], old[i])
          IN  /\ Len(sret.nodes) = Len(scall.nodes)
              /\ \A i \in 1..Len(new) : RLt(Zero, new[i])
              /\ VSum(new) = RSub(IntervalB, IntervalA)
              /\ Increasing(sret.nodes)
              /\ InsideInterval(sret.nodes)
              /\ \A i, j \in 1..Len(lm) : RLt(lm[j], lm[i]) => RLe(s(i), s(j))
    /\ (Corrected /\ RLe(Zero, scall.tol)) =>
          ~(RLt(Zero, VMin(scall.local_max))
              /\ VMax(scall.local_max) = VMin(scall.local_max))

\* the nodes 2, 4 with local maxima 1, 2, 3 and step size 63/64: the first
\* interval grows, the last one shrinks and both nodes move towards b
C25_Witness ==
    /\ Corrected
    /\ scall.nodes = <<R(2), R(4)>>
    /\ scall.local_max = <<One, R(2), R(3)>>
    /\ StepUsed = Norm(63, 64)
    /\ sret.nodes = <<Norm(16384, 2081), Norm(16640, 2081)>>

(***************************************************************************)
(* The structure of interpolate_with_degree, under SpecInterp.             *)
(***************************************************************************)
MaxDegPair == 6

\* the degree pairs (m, n) that reach the last branch of interpolate_with_degree
DegreePairs == {d \in (0..MaxDegPair) \X (1..MaxDegPair) : d[1] # d[2]}

Elements(u) == {u[k] : k \in 1..Len(u)}

\* the primary and secondary indices for the degrees (m, n)
IndexStructure(m, n) ==
    LET nn  == m + n + 1
        N   == IF m > n THEN m ELSE n
        pe  == pseudo_equi_nodes(nn, N + 1)
        sec == SetDiff(nn, pe.v)
    IN  /\ pe.exc = "none"
        /\ Len(pe.v) = N + 1
        /\ \A k \in 1..N : pe.v[k] < pe.v[k + 1]
        /\ Elements(pe.v) \subseteq 0..(nn - 1)
        /\ pe.v[1] = 0
        /\ pe.v[N + 1] = nn - 1
        /\ Elements(pe.v) \cap Elements(sec) = {}
        /\ Elements(pe.v) \cup Elements(sec) = 0..(nn - 1)
        /\ Len(sec) = (IF m > n THEN n ELSE m)
        /\ Len(sec) + (N - n) + (N - m) = N

\* the index structure for every degree pair up to MaxDegPair
AllIndexStructures == \A d \in DegreePairs : IndexStructure(d[1], d[2])

\* the call reaches the last branch of interpolate_with_degree
GeneralDegreeCall ==
    /\ iret # Pending
    /\ icall.fn = "interpolate_with_degree"
    /\ icall.n >= 1
    /\ icall.m # icall.n
    /\ Len(icall.nodes) = icall.m + icall.n + 1
    /\ Len(icall.values) = icall.m + icall.n + 1

\* C26: for degrees (m, n) with n >= 1, m # n and nn = m + n + 1 nodes, the
\* N + 1 = max(m, n) + 1 primary indices are strictly increasing indices of
\* 0..nn-1 with 0 and nn-1 among them, they and the min(m, n) secondary
\* indices partition 0..nn-1, the stacked matrix has N rows and N + 1 columns,
\* and an instance that is returned has the primary nodes as its nodes.
C26_DegreeStructure ==
    /\ AllIndexStructures
    /\ GeneralDegreeCall =>
          LET m  == icall.m
              n  == icall.n
              nn == m + n + 1
              N  == IF m > n THEN m ELSE n
              pe == pseudo_equi_nodes(nn, N + 1)
              xp == Pick(icall.nodes, Plus1(pe.v))
              vp == Pick(icall.values, Plus1(pe.v))
              xs == Pick(icall.nodes, Plus1(SetDiff(nn, pe.v)))
              vs == Pick(icall.values, Plus1(SetDiff(nn, pe.v)))
              B  == Loewner(xs, vs, xp, vp)
                    \o defect_matrix_arnoldi(xp, N - n, AsArray([j \in 1..(N + 1) |-> One]))
                    \o defect_matrix_arnoldi(xp, N - m, vp)
          IN  /\ IndexStructure(m, n)
              /\ Len(B) = N
              /\ \A i \in 1..N : Len(B[i]) = N + 1
              /\ iret.exc = "none" =>
                    /\ iret.nodes = xp
                    /\ Len(iret.nodes) = N + 1
                    /\ Len(iret.weights) = N + 1

\* degrees (1, 2) on the nodes 0, 1, 2, 3: the primary nodes are 0, 2, 3 and
\* the secondary node is 1
C26_Witness ==
    /\ GeneralDegreeCall
    /\ icall.m = 1
    /\ icall.n = 2
    /\ iret.exc = "none"
    /\ iret.nodes = <<R(0), R(2), R(3)>>

(***************************************************************************)
(* The support set of aaa, under SpecAAA.                                  *)
(***************************************************************************)
\* the sample indices that are support points
Support == {aaa_zj[k] : k \in 1..Len(aaa_zj)}

\* a pass of the loop has been completed and none has failed
PassCompleted == aaa_pc \in {"loop", "exit", "returned"} /\ aaa_iters >= 1

\* C28: for tol >= 0 the support point chosen by a pass is not yet a support
\* point, so J.remove never fails; after every pass the support indices and
\* J partition the sample indices, the support points are pairwise distinct
\* and the residual at every support sample is exactly zero.
C28_SupportSet ==
    RLe(Zero, aaa_tol) =>
        /\ (aaa_pc = "loop" /\ aaa_iters < aaa_mmax) => ArgMax(aaa_res) \in aaa_J
        /\ aaa_exc = "ValueError" => Len(aaa_F) = 0
        /\ PassCompleted =>
              /\ Support \cap aaa_J = {}
              /\ Support \cup aaa_J = 1..Len(aaa_F)
              /\ Len(aaa_zj) = aaa_iters
              /\ Distinct(aaa_zj)
              /\ \A i \in Support : aaa_res[i] = Zero

\* two passes done on three samples with tol >= 0 and a third one due
C28_Witness ==
    /\ RLe(Zero, aaa_tol)
    /\ Len(aaa_F) = 3
    /\ aaa_pc = "loop"
    /\ aaa_iters = 2
    /\ aaa_iters < aaa_mmax
    /\ Cardinality(aaa_J) = 1
    /\ aaa_res[aaa_zj[1]] = Zero /\ aaa_res[aaa_zj[2]] = Zero


====
